---------------------------- MODULE Spec2Model ----------------------------
(***************************************************************************)
(* A model of the NES emulator core: the 6502 CPU run loop (cpu.rs), the   *)
(* memory bus (bus.rs), the PPU register file (ppu.rs), the joypad         *)
(* (joypad.rs), the closure that main.rs hands the bus as its callback and *)
(* the step observer of trace.rs.                                          *)
(*                                                                         *)
(* Bytes are 0..255 and addresses 0..65535; every arithmetic step keeps    *)
(* the width the source gives it.  The fixed-size arrays of the source     *)
(* (work RAM, VRAM, OAM, palette), all zero at construction, are kept as   *)
(* functions from the indices holding a non-zero byte to that byte.        *)
(*                                                                         *)
(* opcodes.rs and the PPU's clock (PPU::tick, PPU::get_nmi, the field      *)
(* PPU::nmi) are used by the sources but are not among them; they are      *)
(* modelled from the specification and marked so where they are defined.   *)
(***************************************************************************)
EXTENDS Integers, Sequences, FiniteSets, TLC

(***************************************************************************)
(* Bit operations on bytes and 16-bit words.                               *)
(***************************************************************************)
\* bitwise AND of two unsigned values, bit by bit from the least significant
RECURSIVE BitAnd(_, _)
BitAnd(v, w) ==
    IF v = 0 \/ w = 0 THEN 0
    ELSE (v % 2) * (w % 2) + 2 * BitAnd(v \div 2, w \div 2)

And8(v, w) == BitAnd(v, w)

And16(v, w) == BitAnd(v, w)

Or8(v, w) == v + w - BitAnd(v, w)

Or16(v, w) == v + w - BitAnd(v, w)

Xor8(v, w) == v + w - 2 * BitAnd(v, w)

Not8(v) == 255 - v

\* A panic, and std::process::exit, end the process where they happen: the
\* statements that follow them in the source are never reached.  The machine
\* keeps, in halted_at, itself as it was at that point; Unwound gives that
\* machine back whatever the rest of a definition has made of it since.
Unwound(m) ==
    IF m.halted_at = << >> THEN m
    ELSE [m.halted_at EXCEPT !.halted_at = m.halted_at]

\* the same of a machine, or of a result that carries one as its field m
Unwind(r) ==
    IF "halted_at" \in DOMAIN r THEN Unwound(r)
    ELSE IF "m" \in DOMAIN r THEN [r EXCEPT !.m = Unwound(@)]
    ELSE r

\* the value v bound to the name that K gives it: `let name = v; K`; of what K
\* does after a panic nothing is kept
Bind(v, K(_)) == Unwind(K(v))

\* u8 and u16 wrap-around of an integer result
U8(v) == v % 256

U16(v) == v % 65536

\* `v as i8`: the byte read as a signed value
I8(v) == IF v >= 128 THEN v - 256 ELSE v

\* `v as i16`
I16(v) == IF v >= 32768 THEN v - 65536 ELSE v

(***************************************************************************)
(* Zero-initialised arrays.                                                *)
(***************************************************************************)
Zeroes == <<>>

Get(arr, i) == IF i \in DOMAIN arr THEN arr[i] ELSE 0

Put(arr, i, v) ==
    IF v = 0
    THEN [k \in (DOMAIN arr) \ {i} |-> arr[k]]
    ELSE [k \in (DOMAIN arr) \cup {i} |-> IF k = i THEN v ELSE arr[k]]

(***************************************************************************)
(* cpu.rs: status register bits.                                           *)
(***************************************************************************)
FLG_C == 1
FLG_Z == 2
FLG_I == 4
FLG_D == 8
FLG_B == 16
FLG_U == 32
FLG_V == 64
FLG_N == 128

(***************************************************************************)
(* opcodes.rs (modelled from the specification): the static map from       *)
(* opcode byte to mnemonic, addressing mode, byte length and cycle cost,   *)
(* here as a table indexed by opcode byte + 1.  It holds the opcodes that  *)
(* run_with_callback dispatches; NoOpCode marks a byte the map lacks.      *)
(***************************************************************************)
NoOpCode == [mnemonic |-> "", mode |-> "Implied", len |-> 0, cycles |-> 0]

OPCODES_MAP == <<
    [mnemonic |-> "BRK", mode |-> "Implied", len |-> 1, cycles |-> 7],  \* 00
    [mnemonic |-> "ORA", mode |-> "IndirectX", len |-> 2, cycles |-> 6],  \* 01
    NoOpCode,  \* 02
    [mnemonic |-> "*SLO", mode |-> "IndirectX", len |-> 2, cycles |-> 8],  \* 03
    [mnemonic |-> "*NOP", mode |-> "ZeroPage", len |-> 2, cycles |-> 3],  \* 04
    [mnemonic |-> "ORA", mode |-> "ZeroPage", len |-> 2, cycles |-> 3],  \* 05
    [mnemonic |-> "ASL", mode |-> "ZeroPage", len |-> 2, cycles |-> 5],  \* 06
    [mnemonic |-> "*SLO", mode |-> "ZeroPage", len |-> 2, cycles |-> 5],  \* 07
    [mnemonic |-> "PHP", mode |-> "Implied", len |-> 1, cycles |-> 3],  \* 08
    [mnemonic |-> "ORA", mode |-> "Immediate", len |-> 2, cycles |-> 2],  \* 09
    [mnemonic |-> "ASL", mode |-> "Implied", len |-> 1, cycles |-> 2],  \* 0a
    NoOpCode,  \* 0b
    [mnemonic |-> "*NOP", mode |-> "Absolute", len |-> 3, cycles |-> 4],  \* 0c
    [mnemonic |-> "ORA", mode |-> "Absolute", len |-> 3, cycles |-> 4],  \* 0d
    [mnemonic |-> "ASL", mode |-> "Absolute", len |-> 3, cycles |-> 6],  \* 0e
    [mnemonic |-> "*SLO", mode |-> "Absolute", len |-> 3, cycles |-> 6],  \* 0f
    [mnemonic |-> "BPL", mode |-> "Implied", len |-> 2, cycles |-> 2],  \* 10
    [mnemonic |-> "ORA", mode |-> "IndirectY", len |-> 2, cycles |-> 5],  \* 11
    NoOpCode,  \* 12
    [mnemonic |-> "*SLO", mode |-> "IndirectY", len |-> 2, cycles |-> 8],  \* 13
    [mnemonic |-> "*NOP", mode |-> "ZeroPageX", len |-> 2, cycles |-> 4],  \* 14
    [mnemonic |-> "ORA", mode |-> "ZeroPageX", len |-> 2, cycles |-> 4],  \* 15
    [mnemonic |-> "ASL", mode |-> "ZeroPageX", len |-> 2, cycles |-> 6],  \* 16
    [mnemonic |-> "*SLO", mode |-> "ZeroPageX", len |-> 2, cycles |-> 6],  \* 17
    [mnemonic |-> "CLC", mode |-> "Implied", len |-> 1, cycles |-> 2],  \* 18
    [mnemonic |-> "ORA", mode |-> "AbsoluteY", len |-> 3, cycles |-> 4],  \* 19
    [mnemonic |-> "*NOP", mode |-> "Implied", len |-> 1, cycles |-> 2],  \* 1a
    [mnemonic |-> "*SLO", mode |-> "AbsoluteY", len |-> 3, cycles |-> 7],  \* 1b
    [mnemonic |-> "*NOP", mode |-> "AbsoluteX", len |-> 3, cycles |-> 4],  \* 1c
    [mnemonic |-> "ORA", mode |-> "AbsoluteX", len |-> 3, cycles |-> 4],  \* 1d
    [mnemonic |-> "ASL", mode |-> "AbsoluteX", len |-> 3, cycles |-> 7],  \* 1e
    [mnemonic |-> "*SLO", mode |-> "AbsoluteX", len |-> 3, cycles |-> 7],  \* 1f
    [mnemonic |-> "JSR", mode |-> "Absolute", len |-> 3, cycles |-> 6],  \* 20
    [mnemonic |-> "AND", mode |-> "IndirectX", len |-> 2, cycles |-> 6],  \* 21
    NoOpCode,  \* 22
    [mnemonic |-> "*RLA", mode |-> "IndirectX", len |-> 2, cycles |-> 8],  \* 23
    [mnemonic |-> "BIT", mode |-> "ZeroPage", len |-> 2, cycles |-> 3],  \* 24
    [mnemonic |-> "AND", mode |-> "ZeroPage", len |-> 2, cycles |-> 3],  \* 25
    [mnemonic |-> "ROL", mode |-> "ZeroPage", len |-> 2, cycles |-> 5],  \* 26
    [mnemonic |-> "*RLA", mode |-> "ZeroPage", len |-> 2, cycles |-> 5],  \* 27
    [mnemonic |-> "PLP", mode |-> "Implied", len |-> 1, cycles |-> 4],  \* 28
    [mnemonic |-> "AND", mode |-> "Immediate", len |-> 2, cycles |-> 2],  \* 29
    [mnemonic |-> "ROL", mode |-> "Implied", len |-> 1, cycles |-> 2],  \* 2a
    NoOpCode,  \* 2b
    [mnemonic |-> "BIT", mode |-> "Absolute", len |-> 3, cycles |-> 4],  \* 2c
    [mnemonic |-> "AND", mode |-> "Absolute", len |-> 3, cycles |-> 4],  \* 2d
    [mnemonic |-> "ROL", mode |-> "Absolute", len |-> 3, cycles |-> 6],  \* 2e
    [mnemonic |-> "*RLA", mode |-> "Absolute", len |-> 3, cycles |-> 6],  \* 2f
    [mnemonic |-> "BMI", mode |-> "Implied", len |-> 2, cycles |-> 2],  \* 30
    [mnemonic |-> "AND", mode |-> "IndirectY", len |-> 2, cycles |-> 5],  \* 31
    NoOpCode,  \* 32
    [mnemonic |-> "*RLA", mode |-> "IndirectY", len |-> 2, cycles |-> 8],  \* 33
    [mnemonic |-> "*NOP", mode |-> "ZeroPageX", len |-> 2, cycles |-> 4],  \* 34
    [mnemonic |-> "AND", mode |-> "ZeroPageX", len |-> 2, cycles |-> 4],  \* 35
    [mnemonic |-> "ROL", mode |-> "ZeroPageX", len |-> 2, cycles |-> 6],  \* 36
    [mnemonic |-> "*RLA", mode |-> "ZeroPageX", len |-> 2, cycles |-> 6],  \* 37
    [mnemonic |-> "SEC", mode |-> "Implied", len |-> 1, cycles |-> 2],  \* 38
    [mnemonic |-> "AND", mode |-> "AbsoluteY", len |-> 3, cycles |-> 4],  \* 39
    [mnemonic |-> "*NOP", mode |-> "Implied", len |-> 1, cycles |-> 2],  \* 3a
    [mnemonic |-> "*RLA", mode |-> "AbsoluteY", len |-> 3, cycles |-> 7],  \* 3b
    [mnemonic |-> "*NOP", mode |-> "AbsoluteX", len |-> 3, cycles |-> 4],  \* 3c
    [mnemonic |-> "AND", mode |-> "AbsoluteX", len |-> 3, cycles |-> 4],  \* 3d
    [mnemonic |-> "ROL", mode |-> "AbsoluteX", len |-> 3, cycles |-> 7],  \* 3e
    [mnemonic |-> "*RLA", mode |-> "AbsoluteX", len |-> 3, cycles |-> 7],  \* 3f
    [mnemonic |-> "RTI", mode |-> "Implied", len |-> 1, cycles |-> 6],  \* 40
    [mnemonic |-> "EOR", mode |-> "IndirectX", len |-> 2, cycles |-> 6],  \* 41
    NoOpCode,  \* 42
    [mnemonic |-> "*SRE", mode |-> "IndirectX", len |-> 2, cycles |-> 8],  \* 43
    [mnemonic |-> "*NOP", mode |-> "ZeroPage", len |-> 2, cycles |-> 3],  \* 44
    [mnemonic |-> "EOR", mode |-> "ZeroPage", len |-> 2, cycles |-> 3],  \* 45
    [mnemonic |-> "LSR", mode |-> "ZeroPage", len |-> 2, cycles |-> 5],  \* 46
    [mnemonic |-> "*SRE", mode |-> "ZeroPage", len |-> 2, cycles |-> 5],  \* 47
    [mnemonic |-> "PHA", mode |-> "Implied", len |-> 1, cycles |-> 3],  \* 48
    [mnemonic |-> "EOR", mode |-> "Immediate", len |-> 2, cycles |-> 2],  \* 49
    [mnemonic |-> "LSR", mode |-> "Implied", len |-> 1, cycles |-> 2],  \* 4a
    NoOpCode,  \* 4b
    [mnemonic |-> "JMP", mode |-> "Absolute", len |-> 3, cycles |-> 3],  \* 4c
    [mnemonic |-> "EOR", mode |-> "Absolute", len |-> 3, cycles |-> 4],  \* 4d
    [mnemonic |-> "LSR", mode |-> "Absolute", len |-> 3, cycles |-> 6],  \* 4e
    [mnemonic |-> "*SRE", mode |-> "Absolute", len |-> 3, cycles |-> 6],  \* 4f
    [mnemonic |-> "BVC", mode |-> "Implied", len |-> 2, cycles |-> 2],  \* 50
    [mnemonic |-> "EOR", mode |-> "IndirectY", len |-> 2, cycles |-> 5],  \* 51
    NoOpCode,  \* 52
    [mnemonic |-> "*SRE", mode |-> "IndirectY", len |-> 2, cycles |-> 8],  \* 53
    [mnemonic |-> "*NOP", mode |-> "ZeroPageX", len |-> 2, cycles |-> 4],  \* 54
    [mnemonic |-> "EOR", mode |-> "ZeroPageX", len |-> 2, cycles |-> 4],  \* 55
    [mnemonic |-> "LSR", mode |-> "ZeroPageX", len |-> 2, cycles |-> 6],  \* 56
    [mnemonic |-> "*SRE", mode |-> "ZeroPageX", len |-> 2, cycles |-> 6],  \* 57
    [mnemonic |-> "CLI", mode |-> "Implied", len |-> 1, cycles |-> 2],  \* 58
    [mnemonic |-> "EOR", mode |-> "AbsoluteY", len |-> 3, cycles |-> 4],  \* 59
    [mnemonic |-> "*NOP", mode |-> "Implied", len |-> 1, cycles |-> 2],  \* 5a
    [mnemonic |-> "*SRE", mode |-> "AbsoluteY", len |-> 3, cycles |-> 7],  \* 5b
    [mnemonic |-> "*NOP", mode |-> "AbsoluteX", len |-> 3, cycles |-> 4],  \* 5c
    [mnemonic |-> "EOR", mode |-> "AbsoluteX", len |-> 3, cycles |-> 4],  \* 5d
    [mnemonic |-> "LSR", mode |-> "AbsoluteX", len |-> 3, cycles |-> 7],  \* 5e
    [mnemonic |-> "*SRE", mode |-> "AbsoluteX", len |-> 3, cycles |-> 7],  \* 5f
    [mnemonic |-> "RTS", mode |-> "Implied", len |-> 1, cycles |-> 6],  \* 60
    [mnemonic |-> "ADC", mode |-> "IndirectX", len |-> 2, cycles |-> 6],  \* 61
    NoOpCode,  \* 62
    [mnemonic |-> "*RRA", mode |-> "IndirectX", len |-> 2, cycles |-> 8],  \* 63
    [mnemonic |-> "*NOP", mode |-> "ZeroPage", len |-> 2, cycles |-> 3],  \* 64
    [mnemonic |-> "ADC", mode |-> "ZeroPage", len |-> 2, cycles |-> 3],  \* 65
    [mnemonic |-> "ROR", mode |-> "ZeroPage", len |-> 2, cycles |-> 5],  \* 66
    [mnemonic |-> "*RRA", mode |-> "ZeroPage", len |-> 2, cycles |-> 5],  \* 67
    [mnemonic |-> "PLA", mode |-> "Implied", len |-> 1, cycles |-> 4],  \* 68
    [mnemonic |-> "ADC", mode |-> "Immediate", len |-> 2, cycles |-> 2],  \* 69
    [mnemonic |-> "ROR", mode |-> "Implied", len |-> 1, cycles |-> 2],  \* 6a
    NoOpCode,  \* 6b
    [mnemonic |-> "JMP", mode |-> "Indirect", len |-> 3, cycles |-> 5],  \* 6c
    [mnemonic |-> "ADC", mode |-> "Absolute", len |-> 3, cycles |-> 4],  \* 6d
    [mnemonic |-> "ROR", mode |-> "Absolute", len |-> 3, cycles |-> 6],  \* 6e
    [mnemonic |-> "*RRA", mode |-> "Absolute", len |-> 3, cycles |-> 6],  \* 6f
    [mnemonic |-> "BVS", mode |-> "Implied", len |-> 2, cycles |-> 2],  \* 70
    [mnemonic |-> "ADC", mode |-> "IndirectY", len |-> 2, cycles |-> 5],  \* 71
    NoOpCode,  \* 72
    [mnemonic |-> "*RRA", mode |-> "IndirectY", len |-> 2, cycles |-> 8],  \* 73
    [mnemonic |-> "*NOP", mode |-> "ZeroPageX", len |-> 2, cycles |-> 4],  \* 74
    [mnemonic |-> "ADC", mode |-> "ZeroPageX", len |-> 2, cycles |-> 4],  \* 75
    [mnemonic |-> "ROR", mode |-> "ZeroPageX", len |-> 2, cycles |-> 6],  \* 76
    [mnemonic |-> "*RRA", mode |-> "ZeroPageX", len |-> 2, cycles |-> 6],  \* 77
    [mnemonic |-> "SEI", mode |-> "Implied", len |-> 1, cycles |-> 2],  \* 78
    [mnemonic |-> "ADC", mode |-> "AbsoluteY", len |-> 3, cycles |-> 4],  \* 79
    [mnemonic |-> "*NOP", mode |-> "Implied", len |-> 1, cycles |-> 2],  \* 7a
    [mnemonic |-> "*RRA", mode |-> "AbsoluteY", len |-> 3, cycles |-> 7],  \* 7b
    [mnemonic |-> "*NOP", mode |-> "AbsoluteX", len |-> 3, cycles |-> 4],  \* 7c
    [mnemonic |-> "ADC", mode |-> "AbsoluteX", len |-> 3, cycles |-> 4],  \* 7d
    [mnemonic |-> "ROR", mode |-> "AbsoluteX", len |-> 3, cycles |-> 7],  \* 7e
    [mnemonic |-> "*RRA", mode |-> "AbsoluteX", len |-> 3, cycles |-> 7],  \* 7f
    [mnemonic |-> "*NOP", mode |-> "Immediate", len |-> 2, cycles |-> 2],  \* 80
    [mnemonic |-> "STA", mode |-> "IndirectX", len |-> 2, cycles |-> 6],  \* 81
    [mnemonic |-> "*NOP", mode |-> "Immediate", len |-> 2, cycles |-> 2],  \* 82
    [mnemonic |-> "*SAX", mode |-> "IndirectX", len |-> 2, cycles |-> 6],  \* 83
    [mnemonic |-> "STY", mode |-> "ZeroPage", len |-> 2, cycles |-> 3],  \* 84
    [mnemonic |-> "STA", mode |-> "ZeroPage", len |-> 2, cycles |-> 3],  \* 85
    [mnemonic |-> "STX", mode |-> "ZeroPage", len |-> 2, cycles |-> 3],  \* 86
    [mnemonic |-> "*SAX", mode |-> "ZeroPage", len |-> 2, cycles |-> 3],  \* 87
    [mnemonic |-> "DEY", mode |-> "Implied", len |-> 1, cycles |-> 2],  \* 88
    [mnemonic |-> "*NOP", mode |-> "Immediate", len |-> 2, cycles |-> 2],  \* 89
    [mnemonic |-> "TXA", mode |-> "Implied", len |-> 1, cycles |-> 2],  \* 8a
    NoOpCode,  \* 8b
    [mnemonic |-> "STY", mode |-> "Absolute", len |-> 3, cycles |-> 4],  \* 8c
    [mnemonic |-> "STA", mode |-> "Absolute", len |-> 3, cycles |-> 4],  \* 8d
    [mnemonic |-> "STX", mode |-> "Absolute", len |-> 3, cycles |-> 4],  \* 8e
    [mnemonic |-> "*SAX", mode |-> "Absolute", len |-> 3, cycles |-> 4],  \* 8f
    [mnemonic |-> "BCC", mode |-> "Implied", len |-> 2, cycles |-> 2],  \* 90
    [mnemonic |-> "STA", mode |-> "IndirectY", len |-> 2, cycles |-> 6],  \* 91
    NoOpCode,  \* 92
    NoOpCode,  \* 93
    [mnemonic |-> "STY", mode |-> "ZeroPageX", len |-> 2, cycles |-> 4],  \* 94
    [mnemonic |-> "STA", mode |-> "ZeroPageX", len |-> 2, cycles |-> 4],  \* 95
    [mnemonic |-> "STX", mode |-> "ZeroPageY", len |-> 2, cycles |-> 4],  \* 96
    [mnemonic |-> "*SAX", mode |-> "ZeroPageY", len |-> 2, cycles |-> 4],  \* 97
    [mnemonic |-> "TYA", mode |-> "Implied", len |-> 1, cycles |-> 2],  \* 98
    [mnemonic |-> "STA", mode |-> "AbsoluteY", len |-> 3, cycles |-> 5],  \* 99
    [mnemonic |-> "TXS", mode |-> "Implied", len |-> 1, cycles |-> 2],  \* 9a
    NoOpCode,  \* 9b
    NoOpCode,  \* 9c
    [mnemonic |-> "STA", mode |-> "AbsoluteX", len |-> 3, cycles |-> 5],  \* 9d
    NoOpCode,  \* 9e
    NoOpCode,  \* 9f
    [mnemonic |-> "LDY", mode |-> "Immediate", len |-> 2, cycles |-> 2],  \* a0
    [mnemonic |-> "LDA", mode |-> "IndirectX", len |-> 2, cycles |-> 6],  \* a1
    [mnemonic |-> "LDX", mode |-> "Immediate", len |-> 2, cycles |-> 2],  \* a2
    [mnemonic |-> "*LAX", mode |-> "IndirectX", len |-> 2, cycles |-> 6],  \* a3
    [mnemonic |-> "LDY", mode |-> "ZeroPage", len |-> 2, cycles |-> 3],  \* a4
    [mnemonic |-> "LDA", mode |-> "ZeroPage", len |-> 2, cycles |-> 3],  \* a5
    [mnemonic |-> "LDX", mode |-> "ZeroPage", len |-> 2, cycles |-> 3],  \* a6
    [mnemonic |-> "*LAX", mode |-> "ZeroPage", len |-> 2, cycles |-> 3],  \* a7
    [mnemonic |-> "TAY", mode |-> "Implied", len |-> 1, cycles |-> 2],  \* a8
    [mnemonic |-> "LDA", mode |-> "Immediate", len |-> 2, cycles |-> 2],  \* a9
    [mnemonic |-> "TAX", mode |-> "Implied", len |-> 1, cycles |-> 2],  \* aa
    NoOpCode,  \* ab
    [mnemonic |-> "LDY", mode |-> "Absolute", len |-> 3, cycles |-> 4],  \* ac
    [mnemonic |-> "LDA", mode |-> "Absolute", len |-> 3, cycles |-> 4],  \* ad
    [mnemonic |-> "LDX", mode |-> "Absolute", len |-> 3, cycles |-> 4],  \* ae
    [mnemonic |-> "*LAX", mode |-> "Absolute", len |-> 3, cycles |-> 4],  \* af
    [mnemonic |-> "BCS", mode |-> "Implied", len |-> 2, cycles |-> 2],  \* b0
    [mnemonic |-> "LDA", mode |-> "IndirectY", len |-> 2, cycles |-> 5],  \* b1
    NoOpCode,  \* b2
    [mnemonic |-> "*LAX", mode |-> "IndirectY", len |-> 2, cycles |-> 5],  \* b3
    [mnemonic |-> "LDY", mode |-> "ZeroPageX", len |-> 2, cycles |-> 4],  \* b4
    [mnemonic |-> "LDA", mode |-> "ZeroPageX", len |-> 2, cycles |-> 4],  \* b5
    [mnemonic |-> "LDX", mode |-> "ZeroPageY", len |-> 2, cycles |-> 4],  \* b6
    [mnemonic |-> "*LAX", mode |-> "ZeroPageY", len |-> 2, cycles |-> 4],  \* b7
    [mnemonic |-> "CLV", mode |-> "Implied", len |-> 1, cycles |-> 2],  \* b8
    [mnemonic |-> "LDA", mode |-> "AbsoluteY", len |-> 3, cycles |-> 4],  \* b9
    [mnemonic |-> "TSX", mode |-> "Implied", len |-> 1, cycles |-> 2],  \* ba
    NoOpCode,  \* bb
    [mnemonic |-> "LDY", mode |-> "AbsoluteX", len |-> 3, cycles |-> 4],  \* bc
    [mnemonic |-> "LDA", mode |-> "AbsoluteX", len |-> 3, cycles |-> 4],  \* bd
    [mnemonic |-> "LDX", mode |-> "AbsoluteY", len |-> 3, cycles |-> 4],  \* be
    [mnemonic |-> "*LAX", mode |-> "AbsoluteY", len |-> 3, cycles |-> 4],  \* bf
    [mnemonic |-> "CPY", mode |-> "Immediate", len |-> 2, cycles |-> 2],  \* c0
    [mnemonic |-> "CMP", mode |-> "IndirectX", len |-> 2, cycles |-> 6],  \* c1
    [mnemonic |-> "*NOP", mode |-> "Immediate", len |-> 2, cycles |-> 2],  \* c2
    [mnemonic |-> "*DCP", mode |-> "IndirectX", len |-> 2, cycles |-> 8],  \* c3
    [mnemonic |-> "CPY", mode |-> "ZeroPage", len |-> 2, cycles |-> 3],  \* c4
    [mnemonic |-> "CMP", mode |-> "ZeroPage", len |-> 2, cycles |-> 3],  \* c5
    [mnemonic |-> "DEC", mode |-> "ZeroPage", len |-> 2, cycles |-> 5],  \* c6
    [mnemonic |-> "*DCP", mode |-> "ZeroPage", len |-> 2, cycles |-> 5],  \* c7
    [mnemonic |-> "INY", mode |-> "Implied", len |-> 1, cycles |-> 2],  \* c8
    [mnemonic |-> "CMP", mode |-> "Immediate", len |-> 2, cycles |-> 2],  \* c9
    [mnemonic |-> "DEX", mode |-> "Implied", len |-> 1, cycles |-> 2],  \* ca
    NoOpCode,  \* cb
    [mnemonic |-> "CPY", mode |-> "Absolute", len |-> 3, cycles |-> 4],  \* cc
    [mnemonic |-> "CMP", mode |-> "Absolute", len |-> 3, cycles |-> 4],  \* cd
    [mnemonic |-> "DEC", mode |-> "Absolute", len |-> 3, cycles |-> 6],  \* ce
    [mnemonic |-> "*DCP", mode |-> "Absolute", len |-> 3, cycles |-> 6],  \* cf
    [mnemonic |-> "BNE", mode |-> "Implied", len |-> 2, cycles |-> 2],  \* d0
    [mnemonic |-> "CMP", mode |-> "IndirectY", len |-> 2, cycles |-> 5],  \* d1
    NoOpCode,  \* d2
    [mnemonic |-> "*DCP", mode |-> "IndirectY", len |-> 2, cycles |-> 8],  \* d3
    [mnemonic |-> "*NOP", mode |-> "ZeroPageX", len |-> 2, cycles |-> 4],  \* d4
    [mnemonic |-> "CMP", mode |-> "ZeroPageX", len |-> 2, cycles |-> 4],  \* d5
    [mnemonic |-> "DEC", mode |-> "ZeroPageX", len |-> 2, cycles |-> 6],  \* d6
    [mnemonic |-> "*DCP", mode |-> "ZeroPageX", len |-> 2, cycles |-> 6],  \* d7
    [mnemonic |-> "CLD", mode |-> "Implied", len |-> 1, cycles |-> 2],  \* d8
    [mnemonic |-> "CMP", mode |-> "AbsoluteY", len |-> 3, cycles |-> 4],  \* d9
    [mnemonic |-> "*NOP", mode |-> "Implied", len |-> 1, cycles |-> 2],  \* da
    [mnemonic |-> "*DCP", mode |-> "AbsoluteY", len |-> 3, cycles |-> 7],  \* db
    [mnemonic |-> "*NOP", mode |-> "AbsoluteX", len |-> 3, cycles |-> 4],  \* dc
    [mnemonic |-> "CMP", mode |-> "AbsoluteX", len |-> 3, cycles |-> 4],  \* dd
    [mnemonic |-> "DEC", mode |-> "AbsoluteX", len |-> 3, cycles |-> 7],  \* de
    [mnemonic |-> "*DCP", mode |-> "AbsoluteX", len |-> 3, cycles |-> 7],  \* df
    [mnemonic |-> "CPX", mode |-> "Immediate", len |-> 2, cycles |-> 2],  \* e0
    [mnemonic |-> "SBC", mode |-> "IndirectX", len |-> 2, cycles |-> 6],  \* e1
    [mnemonic |-> "*NOP", mode |-> "Immediate", len |-> 2, cycles |-> 2],  \* e2
    [mnemonic |-> "*ISB", mode |-> "IndirectX", len |-> 2, cycles |-> 8],  \* e3
    [mnemonic |-> "CPX", mode |-> "ZeroPage", len |-> 2, cycles |-> 3],  \* e4
    [mnemonic |-> "SBC", mode |-> "ZeroPage", len |-> 2, cycles |-> 3],  \* e5
    [mnemonic |-> "INC", mode |-> "ZeroPage", len |-> 2, cycles |-> 5],  \* e6
    [mnemonic |-> "*ISB", mode |-> "ZeroPage", len |-> 2, cycles |-> 5],  \* e7
    [mnemonic |-> "INX", mode |-> "Implied", len |-> 1, cycles |-> 2],  \* e8
    [mnemonic |-> "SBC", mode |-> "Immediate", len |-> 2, cycles |-> 2],  \* e9
    [mnemonic |-> "NOP", mode |-> "Implied", len |-> 1, cycles |-> 2],  \* ea
    [mnemonic |-> "*SBC", mode |-> "Immediate", len |-> 2, cycles |-> 2],  \* eb
    [mnemonic |-> "CPX", mode |-> "Absolute", len |-> 3, cycles |-> 4],  \* ec
    [mnemonic |-> "SBC", mode |-> "Absolute", len |-> 3, cycles |-> 4],  \* ed
    [mnemonic |-> "INC", mode |-> "Absolute", len |-> 3, cycles |-> 6],  \* ee
    [mnemonic |-> "*ISB", mode |-> "Absolute", len |-> 3, cycles |-> 6],  \* ef
    [mnemonic |-> "BEQ", mode |-> "Implied", len |-> 2, cycles |-> 2],  \* f0
    [mnemonic |-> "SBC", mode |-> "IndirectY", len |-> 2, cycles |-> 5],  \* f1
    NoOpCode,  \* f2
    [mnemonic |-> "*ISB", mode |-> "IndirectY", len |-> 2, cycles |-> 8],  \* f3
    [mnemonic |-> "*NOP", mode |-> "ZeroPageX", len |-> 2, cycles |-> 4],  \* f4
    [mnemonic |-> "SBC", mode |-> "ZeroPageX", len |-> 2, cycles |-> 4],  \* f5
    [mnemonic |-> "INC", mode |-> "ZeroPageX", len |-> 2, cycles |-> 6],  \* f6
    [mnemonic |-> "*ISB", mode |-> "ZeroPageX", len |-> 2, cycles |-> 6],  \* f7
    [mnemonic |-> "SED", mode |-> "Implied", len |-> 1, cycles |-> 2],  \* f8
    [mnemonic |-> "SBC", mode |-> "AbsoluteY", len |-> 3, cycles |-> 4],  \* f9
    [mnemonic |-> "*NOP", mode |-> "Implied", len |-> 1, cycles |-> 2],  \* fa
    [mnemonic |-> "*ISB", mode |-> "AbsoluteY", len |-> 3, cycles |-> 7],  \* fb
    [mnemonic |-> "*NOP", mode |-> "AbsoluteX", len |-> 3, cycles |-> 4],  \* fc
    [mnemonic |-> "SBC", mode |-> "AbsoluteX", len |-> 3, cycles |-> 4],  \* fd
    [mnemonic |-> "INC", mode |-> "AbsoluteX", len |-> 3, cycles |-> 7],  \* fe
    [mnemonic |-> "*ISB", mode |-> "AbsoluteX", len |-> 3, cycles |-> 7]   \* ff
>>

\* opcodes.get(&code): is the byte in the map, and its entry
IsOpCode(code) == OPCODES_MAP[code + 1] # NoOpCode

OpCode(code) == OPCODES_MAP[code + 1]

(***************************************************************************)
(* cartridge.rs: the Rom handed to Bus::new - program memory, character    *)
(* memory and the mirroring mode.  The model draws it from this catalogue  *)
(* of images; a byte a catalogue entry does not list is 0.                 *)
(***************************************************************************)
Seg(off, bytes) == [i \in off .. (off + Len(bytes) - 1) |-> bytes[i - off + 1]]

\* the three vectors at the end of program memory: NMI, reset, BRK
Vectors(len, nmi, reset, brk) ==
    Seg(len - 6, << nmi % 256, nmi \div 256, reset % 256, reset \div 256,
                    brk % 256, brk \div 256 >>)

Rom(prg, prg_len, mirroring, straight) ==
    [prg_rom |-> prg, prg_len |-> prg_len, chr_rom |-> Zeroes, chr_len |-> \h2000,
     screen_mirroring |-> mirroring, straight |-> straight]

Roms == <<
    \* 1: LDX #1; DEX; DEY (trace.rs, test_format_trace)
    Rom(Seg(0, << \ha2, \h01, \hca, \h88 >>) @@ Vectors(\h8000, 0, \h8000, 0),
        \h8000, "Horizontal", 4),
    \* 2: LDA #$80; STA $2000; l: NOP; JMP l   with the NMI handler INX; RTI
    Rom(Seg(0, << \ha9, \h80, \h8d, \h00, \h20, \hea, \h4c, \h05, \h80 >>)
        @@ Seg(\h10, << \he8, \h40 >>) @@ Vectors(\h8000, \h8010, \h8000, 0),
        \h8000, "Horizontal", 0),
    \* 3: l: NOP; JMP l   (NMI never enabled)
    Rom(Seg(0, << \hea, \h4c, \h00, \h80 >>) @@ Vectors(\h8000, \h8010, \h8000, 0),
        \h8000, "Vertical", 0),
    \* 4: JMP $8001 at $8000 (a jump to the byte after its own opcode);
    \*    $8003: NOP; JMP $8000
    Rom(Seg(0, << \h4c, \h01, \h80, \hea, \h4c, \h00, \h80 >>)
        @@ Vectors(\h8000, 0, \h8000, 0),
        \h8000, "Horizontal", 0),
    \* 5: LDA #$F0; PHA; LDA #0; PLA; JSR $8010; PHP; PLP; BRK
    \*    $8010: RTS   BRK handler $8020: RTI
    Rom(Seg(0, << \ha9, \hf0, \h48, \ha9, \h00, \h68, \h20, \h10, \h80,
                  \h08, \h28, \h00 >>)
        @@ Seg(\h10, << \h60 >>) @@ Seg(\h20, << \h40 >>)
        @@ Vectors(\h8000, 0, \h8000, \h8020),
        \h8000, "Horizontal", 0),
    \* 6: l: BNE l
    Rom(Seg(0, << \hd0, \hfe >>) @@ Vectors(\h8000, 0, \h8000, 0),
        \h8000, "Horizontal", 0),
    \* 7: LDA #$80; STA $2000; NOP; NOP   with the NMI handler INX; RTI
    Rom(Seg(0, << \ha9, \h80, \h8d, \h00, \h20, \hea, \hea >>)
        @@ Seg(\h10, << \he8, \h40 >>) @@ Vectors(\h8000, \h8010, \h8000, 0),
        \h8000, "Horizontal", 7),
    \* 8: LDA #1; STA $8000   (a store into program memory)
    Rom(Seg(0, << \ha9, \h01, \h8d, \h00, \h80 >>) @@ Vectors(\h8000, 0, \h8000, 0),
        \h8000, "Horizontal", 5),
    \* 9: NOP; then the byte $02, which the opcode map lacks
    Rom(Seg(0, << \hea, \h02 >>) @@ Vectors(\h8000, 0, \h8000, 0),
        \h8000, "Horizontal", 0),
    \* 10: 16KB of program memory: SEC; BCC +1; BCS +1; NOP; NOP; JMP $C000
    Rom(Seg(0, << \h38, \h90, \h01, \hb0, \h01, \hea, \hea, \h4c, \h00, \hc0 >>)
        @@ Vectors(\h4000, 0, \hc000, 0),
        \h4000, "Vertical", 0),
    \* 11: l: LDA $2002; JMP l   (polls Status, NMI never enabled)
    Rom(Seg(0, << \had, \h02, \h20, \h4c, \h00, \h80 >>)
        @@ Vectors(\h8000, 0, \h8000, 0),
        \h8000, "Horizontal", 0),
    \* 12: JSR $8001 at $8000 (a call to the byte after its own opcode);
    \*     $8003: NOP; NOP
    Rom(Seg(0, << \h20, \h01, \h80, \hea, \hea >>) @@ Vectors(\h8000, 0, \h8000, 0),
        \h8000, "Horizontal", 0),
    \* 13: LDA $2002; STA $0200; INX   (reads Status, stores into work RAM)
    Rom(Seg(0, << \had, \h02, \h20, \h8d, \h00, \h02, \he8 >>)
        @@ Vectors(\h8000, 0, \h8000, 0),
        \h8000, "Horizontal", 7)
>>

RomIds == 1 .. Len(Roms)

(***************************************************************************)
(* The machine: CPU registers (cpu.rs, struct CPU), the Bus (bus.rs) and   *)
(* the PPU (ppu.rs) as one record that the operations below take and       *)
(* return.  `fatal` records a panic: "" while the process is alive;        *)
(* `exited` records a call of std::process::exit.                          *)
(***************************************************************************)
Halted(m) == m.fatal # "" \/ m.exited

\* the process ends in the machine h
Halt(h) == [h EXCEPT !.halted_at = h]

\* panic!(why), and the panics of the checks the build adds
Panic(m, why) == IF Halted(m) THEN m ELSE Halt([m EXCEPT !.fatal = why])

\* std::process::exit(0)
Exit(m) == IF Halted(m) THEN m ELSE Halt([m EXCEPT !.exited = TRUE])

\* a returned byte (or flag) together with the machine after the call
RV(v, m) == [val |-> v, m |-> m]

----------------------------------------------------------------------------
(***************************************************************************)
(* ppu.rs                                                                  *)
(***************************************************************************)
\* PpuAddress::new, PpuScroll::new, PpuControl::new, PpuStatus::new, PpuMask::new
PpuAddressNew == [address |-> 0, hi_next |-> TRUE]

PpuScrollNew == [x |-> 0, y |-> 0, x_next |-> TRUE]

PpuControlNew == 0

PpuStatusNew == 0

PpuMaskNew == 0

\* PpuAddress::update without the mask to 14 bits
PpuAddressUpdateUnmasked(r, data) ==
    LET adr == IF r.hi_next
               THEN Or16(And16(r.address, \h00ff), data * 256)
               ELSE Or16(And16(r.address, \hff00), data)
    IN  [address |-> adr, hi_next |-> ~r.hi_next]

\* PpuAddress::update
PpuAddressUpdate(r, data) ==
    LET adr == IF r.hi_next
               THEN Or16(And16(r.address, \h00ff), data * 256)
               ELSE Or16(And16(r.address, \hff00), data)
    IN  [address |-> And16(adr, \h3fff), hi_next |-> ~r.hi_next]

\* PpuAddress::increment
PpuAddressIncrement(r, inc) ==
    [r EXCEPT !.address = And16(U16(r.address + inc), \h3fff)]

\* PpuAddress::reset_latch
PpuAddressResetLatch(r) == [r EXCEPT !.hi_next = TRUE]

\* PpuControl::get_address_increment
GetAddressIncrement(flags) == IF And8(flags, 4) = 0 THEN 1 ELSE 32

\* PpuStatus::set_vertical_blank
SetVerticalBlank(flags, condition) ==
    IF condition THEN Or8(flags, \h80) ELSE And8(flags, Not8(\h80))

\* PpuScroll::update
PpuScrollUpdate(r, data) ==
    IF r.x_next
    THEN [r EXCEPT !.x = data, !.x_next = ~r.x_next]
    ELSE [r EXCEPT !.y = data, !.x_next = ~r.x_next]

\* PpuScroll::reset_latch
PpuScrollResetLatch(r) == [r EXCEPT !.x_next = TRUE]

\* PPU::write_address on a PPU with one write-order latch for Address and
\* Scroll: the write toggles the Scroll latch too
PpuWriteAddressSharedLatch(m, data) ==
    [m EXCEPT !.register_address = PpuAddressUpdate(@, data),
              !.register_scroll.x_next = ~@]

\* PPU::write_address
PpuWriteAddress(m, data) ==
    [m EXCEPT !.register_address = PpuAddressUpdate(@, data)]

\* PPU::write_control
PpuWriteControl(m, data) == [m EXCEPT !.register_control = data]

\* PPU::increment_adr
IncrementAdr(m) ==
    [m EXCEPT !.register_address =
        PpuAddressIncrement(@, GetAddressIncrement(m.register_control))]

\* PPU::vram_mirror_adr with the two mirroring modes taken for one another
VramMirrorAdrSwapped(m, address) ==
    LET mirrored_adr == And16(address, \h2fff)
        mirroring == m.rom.screen_mirroring
        low == And16(mirrored_adr, \h03ff)
    IN  IF mirroring = "Vertical" /\ mirrored_adr \in \h2000 .. \h27ff
        THEN RV(low, m)
        ELSE IF mirroring = "Vertical" /\ mirrored_adr \in \h2800 .. \h2fff
        THEN RV(low + \h0400, m)
        ELSE IF mirroring = "Horizontal"
                /\ mirrored_adr \in (\h2000 .. \h23ff) \cup (\h2800 .. \h2bff)
        THEN RV(low, m)
        ELSE IF mirroring = "Horizontal"
                /\ mirrored_adr \in (\h2400 .. \h27ff) \cup (\h2c00 .. \h2fff)
        THEN RV(low + \h0400, m)
        ELSE RV(0, Panic(m, "Mirroring type has not been implemented"))

\* PPU::vram_mirror_adr: the index into vram, or a panic
VramMirrorAdr(m, address) ==
    LET mirrored_adr == And16(address, \h2fff)
        mirroring == m.rom.screen_mirroring
        low == And16(mirrored_adr, \h03ff)
    IN  IF mirroring = "Horizontal" /\ mirrored_adr \in \h2000 .. \h27ff
        THEN RV(low, m)
        ELSE IF mirroring = "Horizontal" /\ mirrored_adr \in \h2800 .. \h2fff
        THEN RV(low + \h0400, m)
        ELSE IF mirroring = "Vertical"
                /\ mirrored_adr \in (\h2000 .. \h23ff) \cup (\h2800 .. \h2bff)
        THEN RV(low, m)
        ELSE IF mirroring = "Vertical"
                /\ mirrored_adr \in (\h2400 .. \h27ff) \cup (\h2c00 .. \h2fff)
        THEN RV(low + \h0400, m)
        ELSE RV(0, Panic(m, "Mirroring type has not been implemented"))

\* PPU::read_data
PpuReadData(m) ==
    LET adr == m.register_address.address
    IN  Bind(IncrementAdr(m), LAMBDA m1 :
        IF adr <= \h1fff
        THEN IF adr < m.rom.chr_len
             THEN RV(m1.buffer, [m1 EXCEPT !.buffer = Get(m.rom.chr_rom, adr)])
             ELSE RV(0, Panic(m1, "index out of bounds"))
        ELSE IF adr <= \h2fff
        THEN Bind(VramMirrorAdr(m1, adr), LAMBDA i :
             RV(m1.buffer, [i.m EXCEPT !.buffer = Get(m1.vram, i.val)]))
        ELSE IF adr <= \h3eff
        THEN RV(0, Panic(m1, "addresses in 0x3000..=0x3eff are not expected"))
        ELSE IF adr <= \h3fff
        THEN IF adr - \h3f00 < 32
             THEN RV(Get(m1.palette_table, adr - \h3f00), m1)
             ELSE RV(0, Panic(m1, "index out of bounds"))
        ELSE RV(0, Panic(m1, "addresses in 0x4000..=0xffff are not expected")))

\* PPU::write_data
PpuWriteData(m, data) ==
    LET adr == m.register_address.address
    IN  IF adr <= \h1fff
        THEN Panic(m, "Attempted to write to chr rom")
        ELSE IF adr <= \h2fff
        THEN Bind(VramMirrorAdr(m, adr), LAMBDA i :
             [i.m EXCEPT !.vram = Put(@, i.val, data)])
        ELSE IF adr <= \h3eff
        THEN Panic(m, "addresses in 0x3000..=0x3eff are not expected")
        ELSE Panic(m, "addresses in 0x4000..=0xffff are not expected")

\* PPU::read_status without the two reset_latch calls
PpuReadStatusKeepsLatches(m) ==
    RV(m.register_status,
       [m EXCEPT !.register_status = SetVerticalBlank(@, FALSE)])

\* PPU::read_status
PpuReadStatus(m) ==
    RV(m.register_status,
       [m EXCEPT !.register_status = SetVerticalBlank(@, FALSE),
                 !.register_address = PpuAddressResetLatch(@),
                 !.register_scroll = PpuScrollResetLatch(@)])

\* PPU::write_oam_address
PpuWriteOamAddress(m, data) == [m EXCEPT !.oam_address = data]

\* PPU::read_oam_data
PpuReadOamData(m) == RV(Get(m.oam_data, m.oam_address), m)

\* PPU::write_oam_data with a cursor that does not wrap to 0 after 255
PpuWriteOamDataUnwrapped(m, data) ==
    [m EXCEPT !.oam_data = Put(@, m.oam_address, data),
              !.oam_address = m.oam_address + 1]

\* PPU::write_oam_data
PpuWriteOamData(m, data) ==
    [m EXCEPT !.oam_data = Put(@, m.oam_address, data),
              !.oam_address = U8(m.oam_address + 1)]

\* PPU::write_oam_dma: the iterations first .. last of the loop over data, a
\* sequence of 256 bytes; the range is split in two so that the evaluation
\* nests 8 deep and not 256 (the test of m.fatal has each half evaluated
\* before the next is entered; nothing here panics)
RECURSIVE WriteOamDmaFrom(_, _, _, _)
WriteOamDmaFrom(m, data, first, last) ==
    IF m.fatal # "" \/ first > last THEN m
    ELSE IF first = last
    THEN [m EXCEPT !.oam_data = Put(@, m.oam_address, data[first]),
                   !.oam_address = U8(m.oam_address + 1)]
    ELSE LET mid == (first + last) \div 2
         IN  WriteOamDmaFrom(WriteOamDmaFrom(m, data, first, mid),
                             data, mid + 1, last)

\* PPU::write_oam_dma that fills OAM from its first byte, whatever the cursor
PpuWriteOamDmaFromZero(m, data) ==
    WriteOamDmaFrom([m EXCEPT !.oam_address = 0], data, 1, Len(data))

PpuWriteOamDma(m, data) == WriteOamDmaFrom(m, data, 1, Len(data))

\* PPU::write_mask
PpuWriteMask(m, data) == [m EXCEPT !.register_mask = data]

\* PPU::write_scroll
PpuWriteScroll(m, data) == [m EXCEPT !.register_scroll = PpuScrollUpdate(@, data)]


(***************************************************************************)
(* The PPU's clock, modelled from the specification (PPU::tick,            *)
(* PPU::get_nmi and the field PPU::nmi are not among the sources):         *)
(* tick advances an internal counter, detects the vertical-blank window    *)
(* and raises the NMI edge on entering it if Control's NMI-enable (bit 7)  *)
(* is set; get_nmi returns and clears the edge.  The specification gives   *)
(* the window no dimensions: a line is CyclesPerLine PPU cycles, the       *)
(* window opens at line VBlankLine and closes, one line later, at the end  *)
(* of the frame.                                                           *)
(***************************************************************************)
CyclesPerLine == 24
VBlankLine == 1
LinesPerFrame == VBlankLine + 1

PpuTick(m, ppu_cycles) ==
    LET c == m.cycles + ppu_cycles
    IN  IF c < CyclesPerLine
        THEN [m EXCEPT !.cycles = c]
        ELSE LET line == m.scanline + 1
                 m1 == [m EXCEPT !.cycles = c - CyclesPerLine, !.scanline = line]
             IN  IF line = VBlankLine
                 THEN [m1 EXCEPT
                         !.register_status = SetVerticalBlank(@, TRUE),
                         !.nmi = IF And8(m.register_status, \h80) = 0
                                    /\ And8(m.register_control, \h80) # 0
                                 THEN TRUE ELSE @]
                 ELSE IF line >= LinesPerFrame
                 THEN [m1 EXCEPT !.scanline = 0,
                                 !.register_status = SetVerticalBlank(@, FALSE)]
                 ELSE m1

PpuGetNmi(m) == RV(m.nmi, [m EXCEPT !.nmi = FALSE])

----------------------------------------------------------------------------
(***************************************************************************)
(* joypad.rs                                                               *)
(***************************************************************************)
\* Joypad::new
JoypadNew == [strobe |-> FALSE, button_index |-> 0, button_flags |-> 0]

\* Joypad::write that leaves the cursor where it is
JoypadWriteKeepsCursor(j, data) ==
    [j EXCEPT !.strobe = And8(data, 1) # 0]

\* Joypad::write
JoypadWrite(j, data) ==
    LET strobe == And8(data, 1) # 0
    IN  [j EXCEPT !.strobe = strobe,
                  !.button_index = IF strobe THEN 0 ELSE @]

\* Joypad::read that advances the cursor whether strobe is set or not
JoypadReadStrobeBlind(j) ==
    IF j.button_index > 7
    THEN [val |-> 1, joypad |-> j]
    ELSE LET response == And8(j.button_flags, 2 ^ j.button_index)
                             \div (2 ^ j.button_index)
         IN  [val |-> response,
              joypad |-> [j EXCEPT !.button_index = @ + 1]]

\* Joypad::read: the returned bit and the joypad after the call
JoypadRead(j) ==
    IF j.button_index > 7
    THEN [val |-> 1, joypad |-> j]
    ELSE LET response == And8(j.button_flags, 2 ^ j.button_index)
                             \div (2 ^ j.button_index)
         IN  [val |-> response,
              joypad |-> IF ~j.strobe /\ j.button_index <= 7
                         THEN [j EXCEPT !.button_index = @ + 1] ELSE j]

\* Joypad::set_button_pressed_status that restarts the report at button A
SetButtonRestarts(j, button, pressed) ==
    [j EXCEPT !.button_flags = IF pressed THEN Or8(@, button)
                               ELSE And8(@, Not8(button)),
              !.button_index = 0]

\* Joypad::set_button_pressed_status
SetButtonPressedStatus(j, button, pressed) ==
    [j EXCEPT !.button_flags = IF pressed THEN Or8(@, button)
                               ELSE And8(@, Not8(button))]

----------------------------------------------------------------------------
(***************************************************************************)
(* bus.rs                                                                  *)
(***************************************************************************)
\* main.rs, key_map: the keys the closure knows, and the button of each
KeyMap ==
    [Down |-> \h20, Up |-> \h10, Right |-> \h80, Left |-> \h40,
     Space |-> \h04, Return |-> \h08, A |-> \h01, S |-> \h02]

\* main.rs, the closure's match on one event: Quit and a press of Escape end
\* the process; a press or a release of a key of the map sets or clears its
\* button of the joypad; anything else (a key the map lacks, no keycode, which
\* unwrap_or turns into Ampersand, any other event) does nothing
HandleEvent(m, event) ==
    IF event.type = "Quit"
       \/ (event.type = "KeyDown" /\ event.keycode = "Escape")
    THEN Exit(m)
    ELSE IF event.type \in {"KeyDown", "KeyUp"} /\ event.keycode \in DOMAIN KeyMap
    THEN [m EXCEPT !.joypad = SetButtonPressedStatus(@, KeyMap[event.keycode],
                                                     event.type = "KeyDown")]
    ELSE m

\* for event in event_pump.poll_iter() { ... }
RECURSIVE PollEvents(_, _)
PollEvents(m, events) ==
    IF events = << >> \/ Halted(m) THEN m
    ELSE PollEvents(HandleEvent(m, Head(events)), Tail(events))

\* the caller's gameloop_callback, the closure of main.rs: it renders the PPU
\* state it is shown, changing none of it, and then handles the events the
\* event pump has for it, m.events, in their order; the model counts its
\* invocations
GameloopCallback(m) ==
    PollEvents([m EXCEPT !.callback_calls = @ + 1, !.events = << >>], m.events)

\* A variant of Bus::tick with a slip in it, for the property C7 to tell apart
\* from it: the PPU is advanced by the CPU's cycles, not by three times them.
BusTickPlain(m, cycles) ==
    Bind(PpuTick(m, cycles), LAMBDA m1 :
    IF ~m.nmi /\ m1.nmi THEN GameloopCallback(m1) ELSE m1)

\* Bus::tick; 3 * cycles is a u8 product
BusTick(m, cycles) ==
    LET nmi_before == m.nmi
        m0 == IF 3 * cycles > 255 /\ m.overflow_checks
              THEN Panic(m, "attempt to multiply with overflow") ELSE m
    IN  Bind(PpuTick(m0, U8(3 * cycles)), LAMBDA m1 :
        LET nmi_after == m1.nmi
        IN  IF ~nmi_before /\ nmi_after THEN GameloopCallback(m1) ELSE m1)

\* Variants of Bus::get_nmi with a slip in them, for the properties C1 and C3
\* to tell apart from it: one that reads the edge without consuming it, and
\* one that takes the vertical-blank flag of Status for the edge.
BusGetNmiPeek(m) == RV(m.nmi, m)

BusGetNmiVBlank(m) == RV(And8(m.register_status, \h80) # 0, m)

\* Bus::get_nmi
BusGetNmi(m) == PpuGetNmi(m)

\* Bus::read of program memory without the mirror of a 16KB image
BusReadPrgUnmirrored(m, adr) ==
    LET len == m.rom.prg_len
        i == adr - \h8000
    IN  IF i < len THEN RV(Get(m.rom.prg_rom, i), m)
        ELSE RV(0, Panic(m, "index out of bounds"))

\* Bus::read
BusReadPrg(m, adr) ==
    LET len == m.rom.prg_len
        i == IF len = \h4000 THEN And16(adr, \h3fff) ELSE adr - \h8000
    IN  IF i < len THEN RV(Get(m.rom.prg_rom, i), m)
        ELSE RV(0, Panic(m, "index out of bounds"))

\* Bus::read with the PPU registers decoded at 0x2000-0x2007 only
BusReadFirstWindow(m, adr) ==
    IF adr \in \h0000 .. \h1fff
    THEN RV(Get(m.cpu_ram, And16(adr, \h07ff)), m)
    ELSE IF adr \in \h2000 .. \h3fff
    THEN IF adr = \h2002 THEN PpuReadStatus(m)
         ELSE IF adr = \h2004 THEN PpuReadOamData(m)
         ELSE IF adr = \h2007 THEN PpuReadData(m)
         ELSE RV(0, Panic(m, "Attempted to read from write-only PPU register"))
    ELSE IF adr \in \h4000 .. \h4015 THEN RV(0, m)
    ELSE IF adr = \h4016 THEN RV(0, m)
    ELSE IF adr = \h4017 THEN RV(0, m)
    ELSE IF adr \in \h8000 .. \hffff THEN BusReadPrg(m, adr)
    ELSE RV(0, m)

BusRead(m, adr) ==
    IF adr \in \h0000 .. \h1fff
    THEN RV(Get(m.cpu_ram, And16(adr, \h07ff)), m)
    ELSE IF adr \in \h2000 .. \h3fff
    THEN LET reg == And16(adr, \h2007)
         IN  IF reg = \h2002 THEN PpuReadStatus(m)
             ELSE IF reg = \h2004 THEN PpuReadOamData(m)
             ELSE IF reg = \h2007 THEN PpuReadData(m)
             ELSE RV(0, Panic(m, "Attempted to read from write-only PPU register"))
    ELSE IF adr \in \h4000 .. \h4015 THEN RV(0, m)
    ELSE IF adr = \h4016 THEN RV(0, m)
    ELSE IF adr = \h4017 THEN RV(0, m)
    ELSE IF adr \in \h8000 .. \hffff THEN BusReadPrg(m, adr)
    ELSE RV(0, m)

\* the loop of Bus::write for 0x4014 with the PPU ticked after every byte
RECURSIVE DmaFillTicking(_, _, _, _)
DmaFillTicking(m, hi, first, last) ==
    IF m.fatal # "" THEN [m |-> m, buffer |-> << >>]
    ELSE IF first = last
    THEN Bind(BusRead(m, hi + first), LAMBDA r :
         [m |-> BusTick(r.m, 1), buffer |-> << r.val >>])
    ELSE LET mid == (first + last) \div 2
         IN  Bind(DmaFillTicking(m, hi, first, mid), LAMBDA f :
             Bind(DmaFillTicking(f.m, hi, mid + 1, last), LAMBDA g :
             [m |-> g.m, buffer |-> f.buffer \o g.buffer]))

\* Bus::write, the arm of 0x4014: buffer[i] = self.read(hi + i) for i in
\* first ..= last, in that order (the range is split in two so that the
\* evaluation nests 8 deep); a read that panics ends the loop
RECURSIVE DmaFill(_, _, _, _)
DmaFill(m, hi, first, last) ==
    IF m.fatal # "" THEN [m |-> m, buffer |-> << >>]
    ELSE IF first = last
    THEN Bind(BusRead(m, hi + first), LAMBDA r :
         [m |-> r.m, buffer |-> << r.val >>])
    ELSE LET mid == (first + last) \div 2
         IN  Bind(DmaFill(m, hi, first, mid), LAMBDA f :
             Bind(DmaFill(f.m, hi, mid + 1, last), LAMBDA g :
             [m |-> g.m, buffer |-> f.buffer \o g.buffer]))

\* Bus::write with the work RAM indexed by the whole address: the cell written
\* at 0x0800 and above is not the cell the mirrors read
BusWriteUnmirrored(m, adr, data) ==
    IF adr \in \h0000 .. \h1fff
    THEN [m EXCEPT !.cpu_ram = Put(@, adr, data)]
    ELSE IF adr \in \h2000 .. \h3fff
    THEN LET reg == And16(adr, \h2007)
         IN  IF reg = \h2000 THEN PpuWriteControl(m, data)
             ELSE IF reg = \h2001 THEN PpuWriteMask(m, data)
             ELSE IF reg = \h2002
             THEN Panic(m, "Attempted to write to PPU status register")
             ELSE IF reg = \h2003 THEN PpuWriteOamAddress(m, data)
             ELSE IF reg = \h2004 THEN PpuWriteOamData(m, data)
             ELSE IF reg = \h2005 THEN PpuWriteScroll(m, data)
             ELSE IF reg = \h2006 THEN PpuWriteAddress(m, data)
             ELSE PpuWriteData(m, data)
    ELSE IF adr \in (\h4000 .. \h4013) \cup {\h4015} THEN m
    ELSE IF adr = \h4014
    THEN Bind(DmaFill(m, data * 256, 0, 255), LAMBDA f :
         IF f.m.fatal # "" THEN f.m ELSE PpuWriteOamDma(f.m, f.buffer))
    ELSE IF adr = \h4016 THEN m
    ELSE IF adr = \h4017 THEN m
    ELSE IF adr \in \h8000 .. \hffff
    THEN Panic(m, "Attempted to write to Cartridge ROM space")
    ELSE m

\* Bus::write with the addresses outside every known range taken for work RAM
BusWriteWideRam(m, adr, data) ==
    IF adr \in \h0000 .. \h1fff
    THEN [m EXCEPT !.cpu_ram = Put(@, And16(adr, \h07ff), data)]
    ELSE IF adr \in \h2000 .. \h3fff
    THEN LET reg == And16(adr, \h2007)
         IN  IF reg = \h2000 THEN PpuWriteControl(m, data)
             ELSE IF reg = \h2001 THEN PpuWriteMask(m, data)
             ELSE IF reg = \h2002
             THEN Panic(m, "Attempted to write to PPU status register")
             ELSE IF reg = \h2003 THEN PpuWriteOamAddress(m, data)
             ELSE IF reg = \h2004 THEN PpuWriteOamData(m, data)
             ELSE IF reg = \h2005 THEN PpuWriteScroll(m, data)
             ELSE IF reg = \h2006 THEN PpuWriteAddress(m, data)
             ELSE PpuWriteData(m, data)
    ELSE IF adr \in (\h4000 .. \h4013) \cup {\h4015} THEN m
    ELSE IF adr = \h4014
    THEN Bind(DmaFill(m, data * 256, 0, 255), LAMBDA f :
         IF f.m.fatal # "" THEN f.m ELSE PpuWriteOamDma(f.m, f.buffer))
    ELSE IF adr = \h4016 THEN m
    ELSE IF adr = \h4017 THEN m
    ELSE IF adr \in \h8000 .. \hffff
    THEN Panic(m, "Attempted to write to Cartridge ROM space")
    ELSE [m EXCEPT !.cpu_ram = Put(@, And16(adr, \h07ff), data)]

\* Bus::write
BusWrite(m, adr, data) ==
    IF adr \in \h0000 .. \h1fff
    THEN [m EXCEPT !.cpu_ram = Put(@, And16(adr, \h07ff), data)]
    ELSE IF adr \in \h2000 .. \h3fff
    THEN LET reg == And16(adr, \h2007)
         IN  IF reg = \h2000 THEN PpuWriteControl(m, data)
             ELSE IF reg = \h2001 THEN PpuWriteMask(m, data)
             ELSE IF reg = \h2002
             THEN Panic(m, "Attempted to write to PPU status register")
             ELSE IF reg = \h2003 THEN PpuWriteOamAddress(m, data)
             ELSE IF reg = \h2004 THEN PpuWriteOamData(m, data)
             ELSE IF reg = \h2005 THEN PpuWriteScroll(m, data)
             ELSE IF reg = \h2006 THEN PpuWriteAddress(m, data)
             ELSE PpuWriteData(m, data)
    ELSE IF adr \in (\h4000 .. \h4013) \cup {\h4015} THEN m
    ELSE IF adr = \h4014
    THEN Bind(DmaFill(m, data * 256, 0, 255), LAMBDA f :
         IF f.m.fatal # "" THEN f.m ELSE PpuWriteOamDma(f.m, f.buffer))
    ELSE IF adr = \h4016 THEN m
    ELSE IF adr = \h4017 THEN m
    ELSE IF adr \in \h8000 .. \hffff
    THEN Panic(m, "Attempted to write to Cartridge ROM space")
    ELSE m

----------------------------------------------------------------------------
(***************************************************************************)
(* cpu.rs                                                                  *)
(***************************************************************************)
\* u16 and i16 additions: an overflow panics in a build with overflow checks
\* and wraps in one without
AddU16(m, v, w) ==
    RV(U16(v + w),
       IF v + w > 65535 /\ m.overflow_checks
       THEN Panic(m, "attempt to add with overflow") ELSE m)

AddI16(m, v, w) ==
    RV(((v + w + 32768) % 65536) - 32768,
       IF (v + w > 32767 \/ v + w < -32768) /\ m.overflow_checks
       THEN Panic(m, "attempt to add with overflow") ELSE m)

\* impl Mem for CPU
Read(m, adr) == BusRead(m, adr)

Write(m, adr, val) == BusWrite(m, adr, val)

\* Mem::read_address
ReadAddress(m, adr) ==
    Bind(Read(m, adr), LAMBDA lo :
    Bind(AddU16(lo.m, adr, 1), LAMBDA next :
    Bind(Read(next.m, next.val), LAMBDA hi :
    RV(Or16(hi.val * 256, lo.val), hi.m))))

\* Mem::write_address: the low byte at adr, then the high byte at adr + 1
WriteAddress(m, adr, val) ==
    Bind(Write(m, adr, val % 256), LAMBDA m1 :
    Bind(AddU16(m1, adr, 1), LAMBDA next :
    Write(next.m, next.val, val \div 256)))

\* A variant of CPU::get_effective_address with a slip in it, for the property
\* C15 to tell apart from it: the Indirect mode reads the high byte from
\* ptr + 1 whatever the low byte of ptr.
GetEffectiveAddressNextPage(m, mode, adr) ==
    IF mode = "Immediate" THEN RV(adr, m)
    ELSE IF mode = "ZeroPage" THEN Read(m, adr)
    ELSE IF mode = "Absolute" THEN ReadAddress(m, adr)
    ELSE IF mode = "ZeroPageX"
    THEN Bind(Read(m, adr), LAMBDA pos : RV(U8(pos.val + m.x), pos.m))
    ELSE IF mode = "ZeroPageY"
    THEN Bind(Read(m, adr), LAMBDA pos : RV(U8(pos.val + m.y), pos.m))
    ELSE IF mode = "AbsoluteX"
    THEN Bind(ReadAddress(m, adr), LAMBDA base : RV(U16(base.val + m.x), base.m))
    ELSE IF mode = "AbsoluteY"
    THEN Bind(ReadAddress(m, adr), LAMBDA base : RV(U16(base.val + m.y), base.m))
    ELSE IF mode = "Indirect"
    THEN Bind(ReadAddress(m, adr), LAMBDA ptr :
         Bind(Read(ptr.m, ptr.val), LAMBDA lo :
         Bind(Read(lo.m, U16(ptr.val + 1)), LAMBDA hi :
         RV(Or16(hi.val * 256, lo.val), hi.m))))
    ELSE IF mode = "IndirectX"
    THEN Bind(Read(m, adr), LAMBDA base :
         Bind(Read(base.m, U8(base.val + m.x)), LAMBDA lo :
         Bind(Read(lo.m, U8(U8(base.val + m.x) + 1)), LAMBDA hi :
         RV(Or16(hi.val * 256, lo.val), hi.m))))
    ELSE IF mode = "IndirectY"
    THEN Bind(Read(m, adr), LAMBDA base :
         Bind(Read(base.m, base.val), LAMBDA lo :
         Bind(Read(lo.m, U8(base.val + 1)), LAMBDA hi :
         RV(U16(Or16(hi.val * 256, lo.val) + m.y), hi.m))))
    ELSE RV(0, Panic(m, "mode Implied is not supported"))

\* A variant of CPU::get_effective_address with a slip in it, for the property
\* C16 to tell apart from it: the additions within the zero page are made in
\* 16 bits, so that a carry leaves the zero page.
GetEffectiveAddressCarry(m, mode, adr) ==
    IF mode = "Immediate" THEN RV(adr, m)
    ELSE IF mode = "ZeroPage" THEN Read(m, adr)
    ELSE IF mode = "Absolute" THEN ReadAddress(m, adr)
    ELSE IF mode = "ZeroPageX"
    THEN Bind(Read(m, adr), LAMBDA pos : RV(pos.val + m.x, pos.m))
    ELSE IF mode = "ZeroPageY"
    THEN Bind(Read(m, adr), LAMBDA pos : RV(pos.val + m.y, pos.m))
    ELSE IF mode = "AbsoluteX"
    THEN Bind(ReadAddress(m, adr), LAMBDA base : RV(U16(base.val + m.x), base.m))
    ELSE IF mode = "AbsoluteY"
    THEN Bind(ReadAddress(m, adr), LAMBDA base : RV(U16(base.val + m.y), base.m))
    ELSE IF mode = "Indirect"
    THEN Bind(ReadAddress(m, adr), LAMBDA ptr :
         Bind(Read(ptr.m, ptr.val), LAMBDA lo :
         Bind(Read(lo.m, IF And16(ptr.val, \hff) = \hff
                         THEN And16(ptr.val, \hff00)
                         ELSE U16(ptr.val + 1)), LAMBDA hi :
         RV(Or16(hi.val * 256, lo.val), hi.m))))
    ELSE IF mode = "IndirectX"
    THEN Bind(Read(m, adr), LAMBDA base :
         Bind(Read(base.m, U8(base.val + m.x)), LAMBDA lo :
         Bind(Read(lo.m, U8(base.val + m.x) + 1), LAMBDA hi :
         RV(Or16(hi.val * 256, lo.val), hi.m))))
    ELSE IF mode = "IndirectY"
    THEN Bind(Read(m, adr), LAMBDA base :
         Bind(Read(base.m, base.val), LAMBDA lo :
         Bind(Read(lo.m, base.val + 1), LAMBDA hi :
         RV(U16(Or16(hi.val * 256, lo.val) + m.y), hi.m))))
    ELSE RV(0, Panic(m, "mode Implied is not supported"))

\* CPU::get_effective_address
GetEffectiveAddress(m, mode, adr) ==
    IF mode = "Immediate" THEN RV(adr, m)
    ELSE IF mode = "ZeroPage" THEN Read(m, adr)
    ELSE IF mode = "Absolute" THEN ReadAddress(m, adr)
    ELSE IF mode = "ZeroPageX"
    THEN Bind(Read(m, adr), LAMBDA pos : RV(U8(pos.val + m.x), pos.m))
    ELSE IF mode = "ZeroPageY"
    THEN Bind(Read(m, adr), LAMBDA pos : RV(U8(pos.val + m.y), pos.m))
    ELSE IF mode = "AbsoluteX"
    THEN Bind(ReadAddress(m, adr), LAMBDA base : RV(U16(base.val + m.x), base.m))
    ELSE IF mode = "AbsoluteY"
    THEN Bind(ReadAddress(m, adr), LAMBDA base : RV(U16(base.val + m.y), base.m))
    ELSE IF mode = "Indirect"
    THEN Bind(ReadAddress(m, adr), LAMBDA ptr :
         Bind(Read(ptr.m, ptr.val), LAMBDA lo :
         Bind(Read(lo.m, IF And16(ptr.val, \hff) = \hff
                         THEN And16(ptr.val, \hff00)
                         ELSE U16(ptr.val + 1)), LAMBDA hi :
         RV(Or16(hi.val * 256, lo.val), hi.m))))
    ELSE IF mode = "IndirectX"
    THEN Bind(Read(m, adr), LAMBDA base :
         Bind(Read(base.m, U8(base.val + m.x)), LAMBDA lo :
         Bind(Read(lo.m, U8(U8(base.val + m.x) + 1)), LAMBDA hi :
         RV(Or16(hi.val * 256, lo.val), hi.m))))
    ELSE IF mode = "IndirectY"
    THEN Bind(Read(m, adr), LAMBDA base :
         Bind(Read(base.m, base.val), LAMBDA lo :
         Bind(Read(lo.m, U8(base.val + 1)), LAMBDA hi :
         RV(U16(Or16(hi.val * 256, lo.val) + m.y), hi.m))))
    ELSE RV(0, Panic(m, "mode Implied is not supported"))

\* CPU::get_operand_address
GetOperandAddress(m, mode) == GetEffectiveAddress(m, mode, m.pc)

\* the pair of statements most handlers open with:
\*   let adr = self.get_operand_address(mode); let val = self.read(adr);
Operand(m, mode) ==
    Bind(GetOperandAddress(m, mode), LAMBDA adr :
    Bind(Read(adr.m, adr.val), LAMBDA val :
    [adr |-> adr.val, val |-> val.val, m |-> val.m]))

\* CPU::update_flag
UpdateFlag(m, flag, condition) ==
    IF condition THEN [m EXCEPT !.p = Or8(@, flag)]
    ELSE [m EXCEPT !.p = And8(@, Not8(flag))]

\* CPU::update_zn_flags
UpdateZnFlags(m, result) ==
    UpdateFlag(UpdateFlag(m, FLG_Z, result = 0), FLG_N, And8(result, FLG_N) # 0)

\* A variant of CPU::stack_push with a slip in it, for the property C10 to tell
\* apart from it: the stack pointer is decremented before the write.
StackPushPreDecrement(m, value) ==
    [Write(m, Or16(\h0100, U8(m.s + 255)), value) EXCEPT !.s = U8(m.s + 255)]

\* CPU::stack_push
StackPush(m, value) ==
    [Write(m, Or16(\h0100, m.s), value) EXCEPT !.s = U8(m.s + 255)]

\* CPU::stack_pop
StackPop(m) ==
    Bind([m EXCEPT !.s = U8(m.s + 1)], LAMBDA m1 : Read(m1, Or16(\h0100, m1.s)))

\* A variant of CPU::reset with a slip in it, for the property C9 to tell apart
\* from it: the stack pointer is left as it was.
CpuResetKeepsStack(m) ==
    Bind(ReadAddress([m EXCEPT !.a = 0, !.x = 0, !.y = 0, !.p = \h24], \hfffc),
         LAMBDA v :
    [v.m EXCEPT !.pc = v.val])

\* CPU::reset
CpuReset(m) ==
    Bind(ReadAddress([m EXCEPT !.a = 0, !.x = 0, !.y = 0, !.p = \h24, !.s = \hfd],
                     \hfffc), LAMBDA v :
    [v.m EXCEPT !.pc = v.val])

\* A variant of CPU::nmi with a slip in it, for the property C11 to tell apart
\* from it: the status is pushed with the break bit set, as BRK pushes it.
NmiPushesBreak(m) ==
    Bind(StackPush(m, m.pc \div 256), LAMBDA m1 :
    Bind(StackPush(m1, And16(m1.pc, \h00ff)), LAMBDA m2 :
    Bind(StackPush(m2, Or8(Or8(m2.p, FLG_U), FLG_B)), LAMBDA m3 :
    Bind(ReadAddress(UpdateFlag(m3, FLG_I, TRUE), \hfffa), LAMBDA v :
    [v.m EXCEPT !.pc = v.val]))))

\* CPU::nmi
Nmi(m) ==
    Bind(StackPush(m, m.pc \div 256), LAMBDA m1 :
    Bind(StackPush(m1, And16(m1.pc, \h00ff)), LAMBDA m2 :
    Bind(StackPush(m2, Or8(And8(m2.p, Not8(FLG_B)), FLG_U)), LAMBDA m3 :
    Bind(ReadAddress(UpdateFlag(m3, FLG_I, TRUE), \hfffa), LAMBDA v :
    [v.m EXCEPT !.pc = v.val]))))


\* A variant of the additions of CPU::adc with a slip in it, for the property
\* C13 to tell apart from it: the overflow test is made after the accumulator
\* has been assigned, on the result instead of the value before.
AddToAOverflowAfter(m, val) ==
    LET s1 == m.a + val
        tmp == U8(s1)
        c1 == s1 > 255
        s2 == tmp + And8(m.p, \h01)
        res == U8(s2)
        c2 == s2 > 255
    IN  [UpdateFlag(UpdateFlag(UpdateZnFlags(m, res), FLG_C, c1 \/ c2), FLG_V,
                    And8(And8(Xor8(res, res), Xor8(val, res)), FLG_N) # 0)
            EXCEPT !.a = res]

\* CPU::adc and CPU::sbc after the operand is read: the two chained u8 additions
AddToA(m, val) ==
    LET s1 == m.a + val
        tmp == U8(s1)
        c1 == s1 > 255
        s2 == tmp + And8(m.p, \h01)
        res == U8(s2)
        c2 == s2 > 255
    IN  [UpdateFlag(UpdateFlag(UpdateZnFlags(m, res), FLG_C, c1 \/ c2), FLG_V,
                    And8(And8(Xor8(m.a, res), Xor8(val, res)), FLG_N) # 0)
            EXCEPT !.a = res]

Adc(m, mode) == Bind(Operand(m, mode), LAMBDA o : AddToA(o.m, o.val))

\* A variant of CPU::sbc with a slip in it, for the property C14 to tell apart
\* from it: the operand is negated instead of complemented.
SbcNegated(m, mode) ==
    Bind(Operand(m, mode), LAMBDA o : AddToA(o.m, U8(256 - o.val)))

Sbc(m, mode) == Bind(Operand(m, mode), LAMBDA o : AddToA(o.m, Not8(o.val)))

And(m, mode) ==
    Bind(Operand(m, mode), LAMBDA o :
    LET res == And8(o.m.a, o.val)
    IN  UpdateZnFlags([o.m EXCEPT !.a = res], res))

Asl(m, mode) ==
    IF mode = "Implied"
    THEN LET res == U8(m.a * 2)
         IN  UpdateZnFlags([UpdateFlag(m, FLG_C, And8(m.a, \h80) # 0)
                               EXCEPT !.a = res], res)
    ELSE Bind(Operand(m, mode), LAMBDA o :
         LET res == U8(o.val * 2)
         IN  Write(UpdateZnFlags(UpdateFlag(o.m, FLG_C, And8(o.val, \h80) # 0), res),
                   o.adr, res))

\* the body shared by bcc, bcs, beq, bmi, bne, bpl, bvc, bvs once the flag
\* test has succeeded
BranchTaken(m) ==
    Bind(Read(m, m.pc), LAMBDA offset :
    Bind(AddI16(offset.m, I16(m.pc), I8(offset.val)), LAMBDA t1 :
    Bind(AddI16(t1.m, t1.val, 1), LAMBDA t2 :
    [t2.m EXCEPT !.pc = U16(t2.val + 65536)])))

Bcc(m) == IF And8(m.p, FLG_C) = 0 THEN BranchTaken(m) ELSE m

Bcs(m) == IF And8(m.p, FLG_C) # 0 THEN BranchTaken(m) ELSE m

Beq(m) == IF And8(m.p, FLG_Z) # 0 THEN BranchTaken(m) ELSE m

Bmi(m) == IF And8(m.p, FLG_N) # 0 THEN BranchTaken(m) ELSE m

Bne(m) == IF And8(m.p, FLG_Z) = 0 THEN BranchTaken(m) ELSE m

Bpl(m) == IF And8(m.p, FLG_N) = 0 THEN BranchTaken(m) ELSE m

Bvc(m) == IF And8(m.p, FLG_V) = 0 THEN BranchTaken(m) ELSE m

Bvs(m) == IF And8(m.p, FLG_V) # 0 THEN BranchTaken(m) ELSE m

BitTest(m, mode) ==
    Bind(Operand(m, mode), LAMBDA o :
    UpdateFlag(UpdateFlag(UpdateFlag(o.m, FLG_Z, And8(o.m.a, o.val) = 0),
                          FLG_V, And8(o.val, FLG_V) # 0),
               FLG_N, And8(o.val, FLG_N) # 0))

Brk(m) ==
    Bind(StackPush(m, m.pc \div 256), LAMBDA m1 :
    Bind(StackPush(m1, And16(m1.pc, \hff)), LAMBDA m2 :
    Bind(StackPush(m2, Or8(Or8(m2.p, FLG_U), FLG_B)), LAMBDA m3 :
    Bind(ReadAddress(UpdateFlag(m3, FLG_I, TRUE), \hfffe), LAMBDA v :
    [v.m EXCEPT !.pc = v.val]))))

Clc(m) == UpdateFlag(m, FLG_C, FALSE)

Cld(m) == UpdateFlag(m, FLG_D, FALSE)

Cli(m) == UpdateFlag(m, FLG_I, FALSE)

Clv(m) == UpdateFlag(m, FLG_V, FALSE)

\* cmp, cpx, cpy: the register compared is the only difference
Compare(m, mode, reg) ==
    Bind(Operand(m, mode), LAMBDA o :
    UpdateFlag(UpdateFlag(UpdateFlag(o.m, FLG_C, reg >= o.val),
                          FLG_Z, reg = o.val),
               FLG_N, And8(U8(reg + 256 - o.val), FLG_N) # 0))

Cmp(m, mode) == Compare(m, mode, m.a)

Cpx(m, mode) == Compare(m, mode, m.x)

Cpy(m, mode) == Compare(m, mode, m.y)

Dec(m, mode) ==
    Bind(Operand(m, mode), LAMBDA o :
    LET res == U8(o.val + 255)
    IN  UpdateZnFlags(Write(o.m, o.adr, res), res))

Dex(m) == LET res == U8(m.x + 255) IN UpdateZnFlags([m EXCEPT !.x = res], res)

Dey(m) == LET res == U8(m.y + 255) IN UpdateZnFlags([m EXCEPT !.y = res], res)

Eor(m, mode) ==
    Bind(Operand(m, mode), LAMBDA o :
    LET res == Xor8(o.m.a, o.val)
    IN  UpdateZnFlags([o.m EXCEPT !.a = res], res))

Inc(m, mode) ==
    Bind(Operand(m, mode), LAMBDA o :
    LET res == U8(o.val + 1)
    IN  UpdateZnFlags(Write(o.m, o.adr, res), res))

Inx(m) == LET res == U8(m.x + 1) IN UpdateZnFlags([m EXCEPT !.x = res], res)

Iny(m) == LET res == U8(m.y + 1) IN UpdateZnFlags([m EXCEPT !.y = res], res)

Jmp(m, mode) ==
    Bind(GetOperandAddress(m, mode), LAMBDA adr : [adr.m EXCEPT !.pc = adr.val])

Jsr(m, mode) ==
    Bind(GetOperandAddress(m, mode), LAMBDA adr :
    Bind(AddU16(adr.m, adr.m.pc, 1), LAMBDA r1 :
    Bind(StackPush(r1.m, r1.val \div 256), LAMBDA m1 :
    Bind(AddU16(m1, m1.pc, 1), LAMBDA r2 :
    [StackPush(r2.m, And16(r2.val, \h00ff)) EXCEPT !.pc = adr.val]))))

Lda(m, mode) ==
    Bind(Operand(m, mode), LAMBDA o :
    UpdateZnFlags([o.m EXCEPT !.a = o.val], o.val))

Ldx(m, mode) ==
    Bind(Operand(m, mode), LAMBDA o :
    UpdateZnFlags([o.m EXCEPT !.x = o.val], o.val))

Ldy(m, mode) ==
    Bind(Operand(m, mode), LAMBDA o :
    UpdateZnFlags([o.m EXCEPT !.y = o.val], o.val))

Lsr(m, mode) ==
    IF mode = "Implied"
    THEN LET res == m.a \div 2
         IN  UpdateZnFlags([UpdateFlag(m, FLG_C, And8(m.a, \h01) # 0)
                               EXCEPT !.a = res], res)
    ELSE Bind(Operand(m, mode), LAMBDA o :
         LET res == o.val \div 2
         IN  Write(UpdateZnFlags(UpdateFlag(o.m, FLG_C, And8(o.val, \h01) # 0), res),
                   o.adr, res))

Nop(m) == m

Ora(m, mode) ==
    Bind(Operand(m, mode), LAMBDA o :
    LET res == Or8(o.m.a, o.val)
    IN  UpdateZnFlags([o.m EXCEPT !.a = res], res))

Pha(m) == StackPush(m, m.a)

Php(m) == StackPush(m, Or8(Or8(m.p, FLG_U), FLG_B))

Pla(m) ==
    Bind(StackPop(m), LAMBDA v : UpdateZnFlags([v.m EXCEPT !.a = v.val], v.val))

\* CPU::plp that takes the popped byte as it is
PlpUnmasked(m) ==
    Bind(StackPop(m), LAMBDA v : [v.m EXCEPT !.p = v.val])

Plp(m) ==
    Bind(StackPop(m), LAMBDA v :
    [v.m EXCEPT !.p = Or8(And8(v.val, Not8(FLG_B)), FLG_U)])

Rol(m, mode) ==
    IF mode = "Implied"
    THEN LET res == Or8(U8(m.a * 2), And8(m.p, FLG_C))
         IN  UpdateZnFlags([UpdateFlag(m, FLG_C, And8(m.a, \h80) # 0)
                               EXCEPT !.a = res], res)
    ELSE Bind(Operand(m, mode), LAMBDA o :
         LET res == Or8(U8(o.val * 2), And8(o.m.p, FLG_C))
         IN  Write(UpdateZnFlags(UpdateFlag(o.m, FLG_C, And8(o.val, \h80) # 0), res),
                   o.adr, res))

Ror(m, mode) ==
    IF mode = "Implied"
    THEN LET res == Or8(m.a \div 2, U8(And8(m.p, FLG_C) * 128))
         IN  UpdateZnFlags([UpdateFlag(m, FLG_C, And8(m.a, \h01) # 0)
                               EXCEPT !.a = res], res)
    ELSE Bind(Operand(m, mode), LAMBDA o :
         LET res == Or8(o.val \div 2, U8(And8(o.m.p, FLG_C) * 128))
         IN  Write(UpdateZnFlags(UpdateFlag(o.m, FLG_C, And8(o.val, \h01) # 0), res),
                   o.adr, res))

\* A variant of CPU::rti with a slip in it, for the property C12 to tell apart
\* from it: the program counter is popped high byte first.
RtiHighByteFirst(m) ==
    Bind(StackPop(m), LAMBDA v :
    Bind(StackPop([v.m EXCEPT !.p = Or8(And8(v.val, Not8(FLG_B)), FLG_U)]),
         LAMBDA hi :
    Bind(StackPop(hi.m), LAMBDA lo :
    [lo.m EXCEPT !.pc = Or16(lo.val, hi.val * 256)])))

Rti(m) ==
    Bind(StackPop(m), LAMBDA v :
    Bind(StackPop([v.m EXCEPT !.p = Or8(And8(v.val, Not8(FLG_B)), FLG_U)]),
         LAMBDA lo :
    Bind(StackPop(lo.m), LAMBDA hi :
    [hi.m EXCEPT !.pc = Or16(lo.val, hi.val * 256)])))

Rts(m) ==
    Bind(StackPop(m), LAMBDA lo :
    Bind(StackPop(lo.m), LAMBDA hi :
    Bind(AddU16(hi.m, Or16(lo.val, hi.val * 256), 1), LAMBDA r :
    [r.m EXCEPT !.pc = r.val])))

Sec(m) == UpdateFlag(m, FLG_C, TRUE)

Sed(m) == UpdateFlag(m, FLG_D, TRUE)

Sei(m) == UpdateFlag(m, FLG_I, TRUE)

Sta(m, mode) ==
    Bind(GetOperandAddress(m, mode), LAMBDA adr : Write(adr.m, adr.val, adr.m.a))

Stx(m, mode) ==
    Bind(GetOperandAddress(m, mode), LAMBDA adr : Write(adr.m, adr.val, adr.m.x))

Sty(m, mode) ==
    Bind(GetOperandAddress(m, mode), LAMBDA adr : Write(adr.m, adr.val, adr.m.y))

Tax(m) == UpdateZnFlags([m EXCEPT !.x = m.a], m.a)

Tay(m) == UpdateZnFlags([m EXCEPT !.y = m.a], m.a)

Tsx(m) == UpdateZnFlags([m EXCEPT !.x = m.s], m.s)

Txa(m) == UpdateZnFlags([m EXCEPT !.a = m.x], m.x)

Txs(m) == [m EXCEPT !.s = m.x]

Tya(m) == UpdateZnFlags([m EXCEPT !.a = m.y], m.y)

Lax(m, mode) == Ldx(Lda(m, mode), mode)

Sax(m, mode) ==
    Bind(GetOperandAddress(m, mode), LAMBDA adr :
    Write(adr.m, adr.val, And8(adr.m.a, adr.m.x)))

Dcp(m, mode) == Cmp(Dec(m, mode), mode)

Isb(m, mode) == Sbc(Inc(m, mode), mode)

Slo(m, mode) == Ora(Asl(m, mode), mode)

Rla(m, mode) == And(Rol(m, mode), mode)

Sre(m, mode) == Eor(Lsr(m, mode), mode)

\* A variant of CPU::rra with a slip in it, for the property C17 to tell apart
\* from it: the addition is made before the rotation.
RraAdcFirst(m, mode) == Ror(Adc(m, mode), mode)

Rra(m, mode) == Adc(Ror(m, mode), mode)

\* CPU::run_with_callback, the match on the opcode byte
Execute(m, code, mode) ==
    CASE code \in {\h69, \h65, \h75, \h6d, \h7d, \h79, \h61, \h71} -> Adc(m, mode)
      [] code \in {\h29, \h25, \h35, \h2d, \h3d, \h39, \h21, \h31} -> And(m, mode)
      [] code \in {\h0a, \h06, \h16, \h0e, \h1e} -> Asl(m, mode)
      [] code = \h90 -> Bcc(m)
      [] code = \hb0 -> Bcs(m)
      [] code = \hf0 -> Beq(m)
      [] code \in {\h24, \h2c} -> BitTest(m, mode)
      [] code = \h30 -> Bmi(m)
      [] code = \hd0 -> Bne(m)
      [] code = \h10 -> Bpl(m)
      [] code = \h00 -> Brk(m)
      [] code = \h50 -> Bvc(m)
      [] code = \h70 -> Bvs(m)
      [] code = \h18 -> Clc(m)
      [] code = \hd8 -> Cld(m)
      [] code = \h58 -> Cli(m)
      [] code = \hb8 -> Clv(m)
      [] code \in {\hc9, \hc5, \hd5, \hcd, \hdd, \hd9, \hc1, \hd1} -> Cmp(m, mode)
      [] code \in {\he0, \he4, \hec} -> Cpx(m, mode)
      [] code \in {\hc0, \hc4, \hcc} -> Cpy(m, mode)
      [] code \in {\hc6, \hd6, \hce, \hde} -> Dec(m, mode)
      [] code = \hca -> Dex(m)
      [] code = \h88 -> Dey(m)
      [] code \in {\h49, \h45, \h55, \h4d, \h5d, \h59, \h41, \h51} -> Eor(m, mode)
      [] code \in {\he6, \hf6, \hee, \hfe} -> Inc(m, mode)
      [] code = \he8 -> Inx(m)
      [] code = \hc8 -> Iny(m)
      [] code \in {\h4c, \h6c} -> Jmp(m, mode)
      [] code = \h20 -> Jsr(m, mode)
      [] code \in {\ha9, \ha5, \hb5, \had, \hbd, \hb9, \ha1, \hb1} -> Lda(m, mode)
      [] code \in {\ha2, \ha6, \hb6, \hae, \hbe} -> Ldx(m, mode)
      [] code \in {\ha0, \ha4, \hb4, \hac, \hbc} -> Ldy(m, mode)
      [] code \in {\h4a, \h46, \h56, \h4e, \h5e} -> Lsr(m, mode)
      [] code = \hea -> Nop(m)
      [] code \in {\h09, \h05, \h15, \h0d, \h1d, \h19, \h01, \h11} -> Ora(m, mode)
      [] code = \h48 -> Pha(m)
      [] code = \h08 -> Php(m)
      [] code = \h68 -> Pla(m)
      [] code = \h28 -> Plp(m)
      [] code \in {\h2a, \h26, \h36, \h2e, \h3e} -> Rol(m, mode)
      [] code \in {\h6a, \h66, \h76, \h6e, \h7e} -> Ror(m, mode)
      [] code = \h40 -> Rti(m)
      [] code = \h60 -> Rts(m)
      [] code \in {\he9, \he5, \hf5, \hed, \hfd, \hf9, \he1, \hf1} -> Sbc(m, mode)
      [] code = \h38 -> Sec(m)
      [] code = \hf8 -> Sed(m)
      [] code = \h78 -> Sei(m)
      [] code \in {\h85, \h95, \h8d, \h9d, \h99, \h81, \h91} -> Sta(m, mode)
      [] code \in {\h86, \h96, \h8e} -> Stx(m, mode)
      [] code \in {\h84, \h94, \h8c} -> Sty(m, mode)
      [] code = \haa -> Tax(m)
      [] code = \ha8 -> Tay(m)
      [] code = \hba -> Tsx(m)
      [] code = \h8a -> Txa(m)
      [] code = \h9a -> Txs(m)
      [] code = \h98 -> Tya(m)
      [] code \in {\h1a, \h3a, \h5a, \h7a, \hda, \hfa, \h80, \h82, \h89, \hc2,
                    \he2, \h04, \h44, \h64, \h14, \h34, \h54, \h74, \hd4, \hf4,
                    \h0c, \h1c, \h3c, \h5c, \h7c, \hdc, \hfc} -> Nop(m)
      [] code \in {\ha7, \hb7, \haf, \hbf, \ha3, \hb3} -> Lax(m, mode)
      [] code \in {\h87, \h97, \h8f, \h83} -> Sax(m, mode)
      [] code = \heb -> Sbc(m, mode)
      [] code \in {\hc7, \hd7, \hcf, \hdf, \hdb, \hd3, \hc3} -> Dcp(m, mode)
      [] code \in {\he7, \hf7, \hef, \hff, \hfb, \he3, \hf3} -> Isb(m, mode)
      [] code \in {\h07, \h17, \h0f, \h1f, \h1b, \h03, \h13} -> Slo(m, mode)
      [] code \in {\h27, \h37, \h2f, \h3f, \h3b, \h33, \h23} -> Rla(m, mode)
      [] code \in {\h47, \h57, \h4f, \h5f, \h5b, \h43, \h53} -> Sre(m, mode)
      [] code \in {\h67, \h77, \h6f, \h7f, \h7b, \h63, \h73} -> Rra(m, mode)
      [] OTHER -> Panic(m, "OpCode was parsed, but has not been implemented yet.")


\* A variant of the end of the loop body with a slip in it, for the property C6
\* to tell apart from it: the whole length is added, the byte of the opcode,
\* which the fetch has stepped over, included.
AdvancePcWholeLength(m, pc_before_instruction, len) ==
    IF pc_before_instruction = m.pc
    THEN Bind(AddU16(m, m.pc, len), LAMBDA r : [r.m EXCEPT !.pc = r.val])
    ELSE m

\* CPU::run_with_callback, the end of the loop body:
\*   if pc_before_instruction == self.pc { self.pc += (opcode.len - 1) as u16; }
AdvancePc(m, pc_before_instruction, len) ==
    IF pc_before_instruction = m.pc
    THEN Bind(AddU16(m, m.pc, len - 1), LAMBDA r : [r.m EXCEPT !.pc = r.val])
    ELSE m

\* A variant of the loop body with a slip in it, for the property C18 to tell
\* apart from it: the Bus clock is advanced before the opcode byte is looked
\* up in the map.
FetchExecuteTicksFirst(m) ==
    Bind(Read(m, m.pc), LAMBDA code :
    Bind(AddU16(code.m, code.m.pc, 1), LAMBDA inc :
    Bind([inc.m EXCEPT !.pc = inc.val], LAMBDA m1 :
    LET pc_before_instruction == m1.pc
    IN  IF ~IsOpCode(code.val)
        THEN [m |-> Panic(BusTick(m1, 2), "OpCode is not recognized"), at |-> m.pc,
              code |-> code.val, opcode |-> NoOpCode, handler_pc |-> m1.pc,
              before_tick |-> m1, after_tick |-> m1]
        ELSE Bind(OpCode(code.val), LAMBDA opcode :
             Bind(Execute(m1, code.val, opcode.mode), LAMBDA m2 :
             Bind(BusTick(m2, opcode.cycles), LAMBDA m3 :
             [m |-> AdvancePc(m3, pc_before_instruction, opcode.len),
              at |-> m.pc, code |-> code.val, opcode |-> opcode,
              handler_pc |-> m2.pc, before_tick |-> m2, after_tick |-> m3]))))))

\* CPU::run_with_callback, the loop body from the opcode fetch on.  Returns the
\* machine after it with what the iteration fetched and did: the opcode's
\* address, byte, table entry, the program counter the handler left, and the
\* machine before and after the call of Bus::tick.
FetchExecute(m) ==
    Bind(Read(m, m.pc), LAMBDA code :
    Bind(AddU16(code.m, code.m.pc, 1), LAMBDA inc :
    Bind([inc.m EXCEPT !.pc = inc.val], LAMBDA m1 :
    LET pc_before_instruction == m1.pc
    IN  IF ~IsOpCode(code.val)
        THEN [m |-> Panic(m1, "OpCode is not recognized"), at |-> m.pc,
              code |-> code.val, opcode |-> NoOpCode, handler_pc |-> m1.pc,
              before_tick |-> m1, after_tick |-> m1]
        ELSE Bind(OpCode(code.val), LAMBDA opcode :
             Bind(Execute(m1, code.val, opcode.mode), LAMBDA m2 :
             Bind(BusTick(m2, opcode.cycles), LAMBDA m3 :
             [m |-> AdvancePc(m3, pc_before_instruction, opcode.len),
              at |-> m.pc, code |-> code.val, opcode |-> opcode,
              handler_pc |-> m2.pc, before_tick |-> m2, after_tick |-> m3]))))))

(***************************************************************************)
(* run_time: u64, as four 16-bit limbs, least significant first.           *)
(***************************************************************************)
U64(n) == << n % 65536, n \div 65536, 0, 0 >>

U64Positive(u) == \E i \in 1 .. 4 : u[i] > 0

RECURSIVE U64Borrow(_, _)
U64Borrow(u, i) ==
    IF i > 4 THEN u
    ELSE IF u[i] > 0 THEN [u EXCEPT ![i] = @ - 1]
    ELSE U64Borrow([u EXCEPT ![i] = 65535], i + 1)

\* u.wrapping_sub(k) for a k below 65536
U64WrappingSub(u, k) ==
    IF u[1] >= k THEN [u EXCEPT ![1] = @ - k]
    ELSE U64Borrow([u EXCEPT ![1] = @ + 65536 - k], 2)

----------------------------------------------------------------------------
(***************************************************************************)
(* trace.rs: the line trace returns for the instruction at the program     *)
(* counter.  It reads the opcode, the operand bytes and the operand's      *)
(* memory cell through the bus, as the instruction itself will.            *)
(***************************************************************************)
HexDigits == << "0", "1", "2", "3", "4", "5", "6", "7",
                "8", "9", "a", "b", "c", "d", "e", "f" >>

\* format!("{:0width$x}", n)
RECURSIVE Hex(_, _)
Hex(n, width) ==
    IF n < 16 /\ width <= 1 THEN HexDigits[n + 1]
    ELSE Hex(n \div 16, width - 1) \o HexDigits[(n % 16) + 1]

\* the fill of a format: n spaces, none if n is not positive
RECURSIVE Spaces(_)
Spaces(n) ==
    IF n <= 0 THEN ""
    ELSE IF n = 1 THEN " "
    ELSE Spaces(n \div 2) \o Spaces(n - (n \div 2))

\* format!("{:width$}", str)
PadRight(str, width) == str \o Spaces(width - Len(str))

\* format!("{: >width$}", str)
PadLeft(str, width) == Spaces(width - Len(str)) \o str

\* str.trim()
RECURSIVE Trim(_)
Trim(str) ==
    IF str = "" THEN str
    ELSE IF Head(str) = " " THEN Trim(Tail(str))
    ELSE IF SubSeq(str, Len(str), Len(str)) = " "
    THEN Trim(SubSeq(str, 1, Len(str) - 1))
    ELSE str

AsciiUppercase ==
    [a |-> "A", b |-> "B", c |-> "C", d |-> "D", e |-> "E", f |-> "F",
     g |-> "G", h |-> "H", i |-> "I", j |-> "J", k |-> "K", l |-> "L",
     m |-> "M", n |-> "N", o |-> "O", p |-> "P", q |-> "Q", r |-> "R",
     s |-> "S", t |-> "T", u |-> "U", v |-> "V", w |-> "W", x |-> "X",
     y |-> "Y", z |-> "Z"]

\* str.to_ascii_uppercase(): every character of a-z replaced (the string is
\* halved so that the evaluation nests 7 deep)
RECURSIVE ToAsciiUppercase(_)
ToAsciiUppercase(str) ==
    IF str = "" THEN str
    ELSE IF Len(str) = 1
    THEN IF str \in DOMAIN AsciiUppercase THEN AsciiUppercase[str] ELSE str
    ELSE LET mid == Len(str) \div 2
         IN  ToAsciiUppercase(SubSeq(str, 1, mid))
             \o ToAsciiUppercase(SubSeq(str, mid + 1, Len(str)))

\* hex_dump.iter().map(|x| format!("{:02x}", x)).collect().join(" ")
RECURSIVE HexStr(_)
HexStr(hex_dump) ==
    IF Len(hex_dump) = 1 THEN Hex(hex_dump[1], 2)
    ELSE Hex(hex_dump[1], 2) \o " " \o HexStr(Tail(hex_dump))

\* let (adr, val) = match opcode.mode { ... }
TraceOperand(m, mode, begin) ==
    IF mode \in {"Immediate", "Implied"} THEN RV([adr |-> 0, val |-> 0], m)
    ELSE Bind(AddU16(m, begin, 1), LAMBDA next :
         Bind(GetEffectiveAddress(next.m, mode, next.val), LAMBDA adr :
         Bind(Read(adr.m, adr.val), LAMBDA val :
         RV([adr |-> adr.val, val |-> val.val], val.m))))

\* the arms of match opcode.mode for an instruction of two bytes: the text
\* of the operand, with the machine
TraceTmp2(m, mode, begin, operand, adr, val) ==
    CASE mode = "Immediate" -> RV("#$" \o Hex(operand, 2), m)
      [] mode = "ZeroPage" -> RV("$" \o Hex(adr, 2) \o " = " \o Hex(val, 2), m)
      [] mode = "ZeroPageX" ->
            RV("$" \o Hex(operand, 2) \o ",X @ " \o Hex(adr, 2) \o " = "
               \o Hex(val, 2), m)
      [] mode = "ZeroPageY" ->
            RV("$" \o Hex(operand, 2) \o ",Y @ " \o Hex(adr, 2) \o " = "
               \o Hex(val, 2), m)
      [] mode = "IndirectX" ->
            RV("($" \o Hex(operand, 2) \o ",X) @ " \o Hex(U8(operand + m.x), 2)
               \o " = " \o Hex(adr, 4) \o " = " \o Hex(val, 2), m)
      [] mode = "IndirectY" ->
            RV("($" \o Hex(operand, 2) \o "),Y = "
               \o Hex(U16(adr + 65536 - m.y), 4) \o " @ " \o Hex(adr, 4)
               \o " = " \o Hex(val, 2), m)
      [] mode = "Implied" ->
            \* (begin as i16 + 2).wrapping_add(operand as i8 as i16) as u16
            Bind(AddI16(m, I16(begin), 2), LAMBDA after :
            RV("$" \o Hex(U16(after.val + I8(operand) + 65536), 4), after.m))
      [] OTHER -> RV("", Panic(m, "Unexpected addressing mode of length 2"))

\* the arms of match opcode.mode for an instruction of three bytes
TraceTmp3(m, mode, code, operand, adr, val) ==
    CASE mode = "Indirect" ->
            RV("($" \o Hex(operand, 4) \o ") = " \o Hex(adr, 4), m)
      [] mode = "Absolute" ->
            RV(IF code \in {\h20, \h4c} THEN "$" \o Hex(operand, 4)
               ELSE "$" \o Hex(adr, 4) \o " = " \o Hex(val, 2), m)
      [] mode = "AbsoluteX" ->
            RV("$" \o Hex(operand, 4) \o ",X @ " \o Hex(adr, 4) \o " = "
               \o Hex(val, 2), m)
      [] mode = "AbsoluteY" ->
            RV("$" \o Hex(operand, 4) \o ",Y @ " \o Hex(adr, 4) \o " = "
               \o Hex(val, 2), m)
      [] OTHER -> RV("", Panic(m, "Unexpected addressing mode of length 3"))

\* let tmp = match opcode.len { ... }: the operand as text, with the bytes
\* of the instruction it has read
TraceTmp(m, code, opcode, begin, adr, val) ==
    CASE opcode.len = 1 ->
            RV([tmp |-> IF code \in {\h0a, \h4a, \h2a, \h6a} THEN "A " ELSE "",
                hex_dump |-> << code >>], m)
      [] opcode.len = 2 ->
            Bind(AddU16(m, begin, 1), LAMBDA next :
            Bind(Read(next.m, next.val), LAMBDA operand :
            Bind(TraceTmp2(operand.m, opcode.mode, begin, operand.val, adr, val),
                 LAMBDA tmp :
            RV([tmp |-> tmp.val, hex_dump |-> << code, operand.val >>],
               tmp.m))))
      [] opcode.len = 3 ->
            Bind(AddU16(m, begin, 1), LAMBDA next :
            Bind(Read(next.m, next.val), LAMBDA operand_lo :
            Bind(AddU16(operand_lo.m, begin, 2), LAMBDA last :
            Bind(Read(last.m, last.val), LAMBDA operand_hi :
            Bind(ReadAddress(operand_hi.m, next.val), LAMBDA operand :
            Bind(TraceTmp3(operand.m, opcode.mode, code, operand.val, adr, val),
                 LAMBDA tmp :
            RV([tmp |-> tmp.val,
                hex_dump |-> << code, operand_lo.val, operand_hi.val >>],
               tmp.m)))))))
      [] OTHER -> RV([tmp |-> "", hex_dump |-> << code >>], m)

\* trace::trace.  Returns the line, with the machine its bus reads leave.
Trace(m) ==
    Bind(Read(m, m.pc), LAMBDA code :
    IF ~IsOpCode(code.val)
    THEN RV("", Panic(code.m, "OpCode was not found"))
    ELSE Bind(OpCode(code.val), LAMBDA opcode :
         Bind(code.m.pc, LAMBDA begin :
         Bind(TraceOperand(code.m, opcode.mode, begin), LAMBDA o :
         Bind(TraceTmp(o.m, code.val, opcode, begin, o.val.adr, o.val.val),
              LAMBDA t :
         LET asm_str == Trim(Hex(begin, 4) \o "  "
                             \o PadRight(HexStr(t.val.hex_dump), 8) \o " "
                             \o PadLeft(opcode.mnemonic, 4) \o " "
                             \o t.val.tmp)
         IN  RV(ToAsciiUppercase(
                    PadRight(asm_str, 47)
                    \o " A:" \o Hex(t.m.a, 2) \o " X:" \o Hex(t.m.x, 2)
                    \o " Y:" \o Hex(t.m.y, 2) \o " P:" \o Hex(t.m.p, 2)
                    \o " SP:" \o Hex(t.m.s, 2)),
                t.m))))))

(***************************************************************************)
(* Bounds of the model.                                                    *)
(***************************************************************************)
\* instructions executed in a session
MaxInstr == 10
\* calls of run in a session, and of reset
MaxRuns == 2
MaxResets == 2
\* the largest budget handed to run
MaxBudget == 7

(***************************************************************************)
(* State.                                                                  *)
(***************************************************************************)
VARIABLES
    a, x, y, p, s, pc,          \* struct CPU
    cpu_ram, rom,               \* struct Bus: work RAM; the Rom
    callback_calls,             \* invocations of Bus::callback so far
    joypad,                     \* the Joypad the closure of main.rs takes
                                \* as its second argument (the Bus of
                                \* bus.rs keeps none and hands it none)
    palette_table, vram, oam_data, buffer,      \* struct PPU
    register_control, register_mask, register_status, oam_address,
    register_scroll, register_address,
    nmi, cycles, scanline,      \* the PPU's clock and its NMI edge
    overflow_checks,            \* the build: TRUE if arithmetic overflow panics
    fatal,                      \* the panic message, "" while running
    exited,                     \* TRUE once std::process::exit was called
    loc,                        \* where the caller and run_with_callback stand
    callback,                   \* run_with_callback: the observer it is given,
                                \* "none" for the closure of CPU::run and
                                \* "trace" for the one of trace.rs
    timeout, run_time,          \* run_with_callback: its argument and its local
    hist,                       \* what has happened so far (history only)
    probe                       \* argument and result of a single operation

cpuVars == << a, x, y, p, s, pc >>
busVars == << cpu_ram, rom, callback_calls, joypad >>
ppuVars == << palette_table, vram, oam_data, buffer, register_control,
              register_mask, register_status, oam_address, register_scroll,
              register_address, nmi, cycles, scanline >>
machineVars == << cpuVars, busVars, ppuVars, overflow_checks, fatal, exited >>
vars == << machineVars, loc, callback, timeout, run_time, hist, probe >>

\* the machine as the record the operations work on.  Two of its fields are
\* no state of the program: events is what event_pump.poll_iter() yields if
\* it is called during the operation, an input of it, and halted_at the machine
\* as a panic or an exit inside the operation left it.
M == [a |-> a, x |-> x, y |-> y, p |-> p, s |-> s, pc |-> pc,
      cpu_ram |-> cpu_ram, rom |-> rom, callback_calls |-> callback_calls,
      palette_table |-> palette_table, vram |-> vram, oam_data |-> oam_data,
      buffer |-> buffer, register_control |-> register_control,
      register_mask |-> register_mask, register_status |-> register_status,
      oam_address |-> oam_address, register_scroll |-> register_scroll,
      register_address |-> register_address,
      nmi |-> nmi, cycles |-> cycles, scanline |-> scanline,
      joypad |-> joypad,
      overflow_checks |-> overflow_checks, fatal |-> fatal, exited |-> exited,
      events |-> << >>, halted_at |-> << >>]

\* the machine a call has returned, or has left behind, as the state M is of
Settled(m) == [Unwound(m) EXCEPT !.events = << >>, !.halted_at = << >>]

\* the machine becomes the one the call has returned or left behind
Becomes(r) ==
    LET m == Unwound(r)
    IN  /\ a' = m.a /\ x' = m.x /\ y' = m.y /\ p' = m.p /\ s' = m.s /\ pc' = m.pc
        /\ cpu_ram' = m.cpu_ram /\ rom' = m.rom
        /\ callback_calls' = m.callback_calls /\ joypad' = m.joypad
        /\ palette_table' = m.palette_table /\ vram' = m.vram
        /\ oam_data' = m.oam_data /\ buffer' = m.buffer
        /\ register_control' = m.register_control
        /\ register_mask' = m.register_mask
        /\ register_status' = m.register_status /\ oam_address' = m.oam_address
        /\ register_scroll' = m.register_scroll
        /\ register_address' = m.register_address
        /\ nmi' = m.nmi /\ cycles' = m.cycles /\ scanline' = m.scanline
        /\ overflow_checks' = m.overflow_checks /\ fatal' = m.fatal
        /\ exited' = m.exited

\* the machine is m
Is(m) ==
    /\ a = m.a /\ x = m.x /\ y = m.y /\ p = m.p /\ s = m.s /\ pc = m.pc
    /\ cpu_ram = m.cpu_ram /\ rom = m.rom /\ callback_calls = m.callback_calls
    /\ joypad = m.joypad
    /\ palette_table = m.palette_table /\ vram = m.vram
    /\ oam_data = m.oam_data /\ buffer = m.buffer
    /\ register_control = m.register_control /\ register_mask = m.register_mask
    /\ register_status = m.register_status /\ oam_address = m.oam_address
    /\ register_scroll = m.register_scroll
    /\ register_address = m.register_address
    /\ nmi = m.nmi /\ cycles = m.cycles /\ scanline = m.scanline
    /\ overflow_checks = m.overflow_checks /\ fatal = m.fatal
    /\ exited = m.exited

\* a panic ends the process: nothing of its state is seen again
Panicked(m, h) ==
    /\ fatal' = m.fatal
    /\ loc' = "panicked"
    /\ hist' = h
    /\ UNCHANGED << cpuVars, busVars, ppuVars, overflow_checks, exited,
                    callback, timeout, run_time, probe >>

\* CPU::new, Bus::new, PPU::new
NewMachine(r, oc) ==
    [a |-> 0, x |-> 0, y |-> 0, p |-> 0, s |-> 0, pc |-> 0,
     cpu_ram |-> Zeroes, rom |-> r, callback_calls |-> 0,
     joypad |-> JoypadNew,
     palette_table |-> Zeroes, vram |-> Zeroes, oam_data |-> Zeroes,
     buffer |-> 0, register_control |-> PpuControlNew,
     register_mask |-> PpuMaskNew, register_status |-> PpuStatusNew,
     oam_address |-> 0, register_scroll |-> PpuScrollNew,
     register_address |-> PpuAddressNew,
     nmi |-> FALSE, cycles |-> 0, scanline |-> 0,
     overflow_checks |-> oc, fatal |-> "", exited |-> FALSE,
     events |-> << >>, halted_at |-> << >>]

\* no instruction completed since the last call of reset or run
NoInstr == [at |-> 0, code |-> 0, len |-> 0, handler_pc |-> 0]

NoRegs == [a |-> 0, x |-> 0, y |-> 0, p |-> 0, s |-> 0, pc |-> 0]

NewHist ==
    [resets |-> 0, runs |-> 0,          \* calls of reset and of run
     runs_since_reset |-> 0,
     last_call |-> "new",               \* the last call the caller made
     max_time |-> 0,                    \* the budget of the current run
     executed |-> 0,                    \* instructions completed
     observed |-> 0,                    \* invocations of the step observer
     result |-> << >>,                  \* the lines it has pushed in this
                                        \* run (result of test_cpu_trace)
     fetched |-> 0,                     \* opcode fetches
     fetch_log |-> << >>,               \* addresses of this run's opcode fetches
     consumed |-> 0,                    \* byte lengths of this run's instructions
     nmi_serviced |-> 0,                \* calls of CPU::nmi
     nmi_in_run |-> 0,                  \* ... in the current run
     vblank_entries |-> 0,              \* ticks that set vertical blank
     nmi_edges |-> 0,                   \* ... with NMI-enable set
     ever_enabled |-> FALSE,            \* was Control's NMI-enable ever set
     cpu_cycles |-> 0,                  \* sum of the executed opcodes' costs
     ppu_cycles |-> 0,                  \* PPU cycles the clock has advanced
     last |-> NoInstr,                  \* the last instruction completed
     before_reset |-> NoRegs,           \* the registers the last reset found
     died |-> << >>]                    \* the machine as a panic, or an exit,
                                        \* in the loop body left it

Init ==
    /\ \E r \in RomIds, oc \in BOOLEAN : Is(NewMachine(Roms[r], oc))
    /\ loc = "new"
    /\ callback = "none"
    /\ timeout = FALSE
    /\ run_time = U64(0)
    /\ hist = NewHist
    /\ probe = << >>


(***************************************************************************)
(* History kept for the properties.                                        *)
(***************************************************************************)
VBlank(status) == And8(status, \h80) # 0

NmiEnabled(control) == And8(control, \h80) # 0

\* the PPU clock's place in its frame, and how far a tick moved it
FrameLen == CyclesPerLine * LinesPerFrame

FramePos(m) == m.scanline * CyclesPerLine + m.cycles

Advanced(m1, m2) == (FramePos(m2) + FrameLen - FramePos(m1)) % FrameLen

\* the history after the loop body r == FetchExecute(M) has run
HistAfter(h, r) ==
    LET entry == ~VBlank(r.before_tick.register_status)
                 /\ VBlank(r.after_tick.register_status)
    IN  [h EXCEPT
          !.executed = @ + 1,
          !.fetched = @ + 1,
          !.fetch_log = Append(@, r.at),
          !.consumed = @ + r.opcode.len,
          !.vblank_entries = @ + (IF entry THEN 1 ELSE 0),
          !.nmi_edges = @ + (IF entry /\ NmiEnabled(r.before_tick.register_control)
                             THEN 1 ELSE 0),
          !.ever_enabled = @ \/ NmiEnabled(r.m.register_control),
          !.cpu_cycles = @ + r.opcode.cycles,
          !.ppu_cycles = @ + Advanced(r.before_tick, r.after_tick),
          !.last = [at |-> r.at, code |-> r.code, len |-> r.opcode.len,
                    handler_pc |-> r.handler_pc]]

\* SDL events as the closure of main.rs sees them: a type, and the keycode
\* of a key event ("None" if it has none)
Quit == [type |-> "Quit", keycode |-> "None"]

KeyDown(keycode) == [type |-> "KeyDown", keycode |-> keycode]

KeyUp(keycode) == [type |-> "KeyUp", keycode |-> keycode]

\* what event_pump.poll_iter() may yield in one invocation of the closure:
\* nothing, a request to quit, Escape, keys of the map pressed and released,
\* a key the map lacks and one without a keycode, and events past a Quit
EventBatches ==
    { << >>,
      << Quit >>,
      << KeyDown("Escape") >>,
      << KeyDown("A") >>,
      << KeyUp("A"), KeyDown("Return"), KeyDown("Q") >>,
      << KeyUp("Escape"), KeyDown("None"), KeyDown("Right") >>,
      << KeyDown("S"), Quit, KeyUp("S") >> }

(***************************************************************************)
(* Actions: the caller's calls of reset and run, and the steps of          *)
(* run_with_callback's loop.                                               *)
(***************************************************************************)
\* cpu.reset()
Reset ==
    /\ loc \in {"new", "idle"}
    /\ hist.resets < MaxResets
    /\ \E m \in {CpuReset(M)} :
           IF m.fatal # ""
           THEN Panicked(m, hist)
           ELSE /\ Becomes(m)
                /\ loc' = "idle"
                /\ hist' = [hist EXCEPT
                              !.resets = @ + 1, !.runs_since_reset = 0,
                              !.last_call = "reset", !.last = NoInstr,
                              !.before_reset = [a |-> a, x |-> x, y |-> y,
                                                p |-> p, s |-> s, pc |-> pc]]
                /\ UNCHANGED << callback, timeout, run_time, probe >>

\* cpu.run(timeout, max_time), or cpu.run_with_callback(callback, timeout,
\* max_time) with the closure of trace.rs: entry into run_with_callback
Run ==
    /\ loc = "idle"
    /\ hist.runs < MaxRuns
    /\ \E cb \in {"none", "trace"}, t \in BOOLEAN, max_time \in 0 .. MaxBudget :
        /\ ~t => max_time = 0
        /\ callback' = cb
        /\ timeout' = t
        /\ run_time' = U64(max_time)
        /\ loc' = "while"
        /\ hist' = [hist EXCEPT !.runs = @ + 1, !.runs_since_reset = @ + 1,
                                !.last_call = "run", !.max_time = max_time,
                                !.fetch_log = << >>, !.consumed = 0,
                                !.nmi_in_run = 0, !.last = NoInstr,
                                !.result = << >>]
        /\ UNCHANGED << machineVars, probe >>

\* while !timeout || run_time > 0
LoopTest ==
    /\ loc = "while"
    /\ loc' = IF ~timeout \/ U64Positive(run_time) THEN "nmi" ELSE "idle"
    /\ UNCHANGED << machineVars, callback, timeout, run_time, hist, probe >>

\* A variant of the loop's first statement with a slip in it, for the property
\* C4 to tell apart from it: the loop goes on to the observer without polling
\* the bus for an NMI.
ServiceNmiSkipped ==
    /\ loc = "nmi"
    /\ loc' = "callback"
    /\ UNCHANGED << machineVars, callback, timeout, run_time, hist, probe >>

\* if self.bus.get_nmi() { self.nmi(); }
ServiceNmi ==
    /\ loc = "nmi"
    /\ \E r \in {BusGetNmi(M)} :
       \E m \in {IF r.val THEN Nmi(r.m) ELSE r.m} :
       LET n == IF r.val THEN 1 ELSE 0
           h == [hist EXCEPT !.nmi_serviced = @ + n, !.nmi_in_run = @ + n]
       IN  IF m.fatal # ""
           THEN Panicked(m, hist)
           ELSE /\ Becomes(m)
                /\ loc' = "callback"
                /\ hist' = h
                /\ UNCHANGED << callback, timeout, run_time, probe >>

\* the closures run_with_callback is given: |_| {} by CPU::run, and
\* |cpu| { result.push(trace(cpu)); } by test_cpu_trace of trace.rs.  Returns
\* the line pushed ("" if none is) with the machine.
Callback(m, which) == IF which = "trace" THEN Trace(m) ELSE RV("", m)

\* callback(self): the step observer.  The one of trace.rs reads the operand
\* of the instruction to come through the bus: a read of a PPU register acts
\* on the PPU, and may panic.
StepObserver ==
    /\ loc = "callback"
    /\ \E r \in {Callback(M, callback)} :
           IF r.m.fatal # ""
           THEN Panicked(r.m, [hist EXCEPT !.observed = @ + 1,
                                           !.died = Settled(r.m)])
           ELSE /\ Becomes(r.m)
                /\ loc' = "fetch"
                /\ hist' = [hist EXCEPT
                              !.observed = @ + 1,
                              !.result = IF callback = "trace"
                                         THEN Append(@, r.val) ELSE @]
                /\ UNCHANGED << callback, timeout, run_time, probe >>

\* the rest of the loop body: fetch, decrement run_time, execute, tick, advance.
\* The closure of main.rs, called by the tick, may end the process: the loop
\* then stands in the tick for good, the instruction's handler and the PPU's
\* clock done, the program counter not advanced and the edge not serviced.
Step ==
    /\ loc = "fetch"
    /\ hist.executed < MaxInstr
    /\ \E events \in EventBatches :
       \E r \in {FetchExecute([M EXCEPT !.events = events])} :
           IF r.m.fatal # ""
           THEN Panicked(r.m, [hist EXCEPT !.fetched = @ + 1,
                                           !.fetch_log = Append(@, r.at),
                                           !.died = Settled(r.m)])
           ELSE /\ Becomes(r.m)
                /\ run_time' = U64WrappingSub(run_time, r.opcode.len)
                /\ loc' = IF r.m.exited THEN "exited" ELSE "while"
                /\ hist' = IF r.m.exited
                           THEN [HistAfter(hist, r) EXCEPT
                                   !.executed = hist.executed,
                                   !.consumed = hist.consumed,
                                   !.last = hist.last,
                                   !.died = Settled(r.m)]
                           ELSE HistAfter(hist, r)
                /\ UNCHANGED << callback, timeout, probe >>

Next == Reset \/ Run \/ LoopTest \/ ServiceNmi \/ StepObserver \/ Step

Spec == Init /\ [][Next]_vars

(***************************************************************************)
(* The stack operations on their own: a CPU with any stack pointer and any *)
(* byte to push, the stack page holding other bytes at and next to the     *)
(* slot; the byte is pushed, then popped.                                  *)
(***************************************************************************)
\* what the stack page holds before the push: 0x55 at the slot, 0xAA at the
\* slots next to it
StackPage(s0) ==
    Put(Put(Put(Zeroes, \h0100 + U8(s0 + 1), \haa),
            \h0100 + U8(s0 + 255), \haa),
        \h0100 + s0, \h55)

InitStack ==
    /\ \E oc \in BOOLEAN, s0 \in 0 .. 255, b \in 0 .. 255 :
        /\ Is([NewMachine(Roms[1], oc) EXCEPT !.s = s0, !.cpu_ram = StackPage(s0)])
        /\ probe = [stage |-> "push", s |-> s0, b |-> b,
                    ram |-> StackPage(s0), popped |-> 0]
    /\ loc = "stack"
    /\ callback = "none"
    /\ timeout = FALSE
    /\ run_time = U64(0)
    /\ hist = NewHist

\* self.stack_push(b)
Push ==
    /\ probe.stage = "push"
    /\ Becomes(StackPush(M, probe.b))
    /\ probe' = [probe EXCEPT !.stage = "pop"]
    /\ UNCHANGED << loc, callback, timeout, run_time, hist >>

\* self.stack_pop()
Pop ==
    /\ probe.stage = "pop"
    /\ \E r \in {StackPop(M)} :
        /\ Becomes(r.m)
        /\ probe' = [probe EXCEPT !.stage = "done", !.popped = r.val]
    /\ UNCHANGED << loc, callback, timeout, run_time, hist >>

NextStack == Push \/ Pop

SpecStack == InitStack /\ [][NextStack]_vars

(***************************************************************************)
(* Interrupt entry and return on their own: a CPU with any status byte,    *)
(* a stack pointer at or away from the ends of the stack page, and either  *)
(* an entry (BRK, NMI service, PHP) followed by the matching return (RTI,  *)
(* RTI, PLP), or a return alone from a stack that holds any byte where     *)
(* the status is popped.                                                   *)
(***************************************************************************)
\* the stack page before a return alone: the byte b where the status is
\* popped, then the low and the high byte of an address
ReturnPage(s0, b, adr) ==
    Put(Put(Put(Zeroes, \h0100 + U8(s0 + 3), adr \div 256),
            \h0100 + U8(s0 + 2), adr % 256),
        \h0100 + U8(s0 + 1), b)

InitInterrupt ==
    /\ \E oc \in BOOLEAN, r \in {2, 5},
          kind \in {"brk", "nmi", "php", "rti", "plp"},
          s0 \in {\h00, \h01, \h02, \h03, \h7f, \hfd, \hff},
          b \in 0 .. 255, pc0 \in {\h8001, \hc0fe} :
        LET entry == kind \in {"brk", "nmi", "php"}
            ram == IF entry THEN StackPage(s0) ELSE ReturnPage(s0, b, \h1234)
        IN  /\ Is([NewMachine(Roms[r], oc) EXCEPT
                     !.s = s0, !.pc = pc0, !.cpu_ram = ram,
                     !.p = IF entry THEN b ELSE \h24])
            /\ probe = [stage |-> IF entry THEN "enter" ELSE "return",
                        kind |-> kind, s |-> s0, b |-> b, pc |-> pc0,
                        ram |-> ram, top |-> s0, popped |-> 0]
    /\ loc = "interrupt"
    /\ callback = "none"
    /\ timeout = FALSE
    /\ run_time = U64(0)
    /\ hist = NewHist

\* self.brk(), self.nmi() or self.php()
Enter ==
    /\ probe.stage = "enter"
    /\ \E m \in {IF probe.kind = "brk" THEN Brk(M)
                 ELSE IF probe.kind = "nmi" THEN Nmi(M) ELSE Php(M)} :
           Becomes(m)
    /\ probe' = [probe EXCEPT !.stage = "return"]
    /\ UNCHANGED << loc, callback, timeout, run_time, hist >>

\* self.rti() or self.plp(); the probe keeps the stack pointer the return
\* found and the byte that lay where the status is popped
Return ==
    /\ probe.stage = "return"
    /\ \E m \in {IF probe.kind \in {"php", "plp"} THEN Plp(M) ELSE Rti(M)} :
           Becomes(m)
    /\ probe' = [probe EXCEPT !.stage = "done", !.top = s,
                              !.popped = Get(cpu_ram, \h0100 + U8(s + 1))]
    /\ UNCHANGED << loc, callback, timeout, run_time, hist >>

SpecInterrupt == InitInterrupt /\ [][Enter \/ Return]_vars

(***************************************************************************)
(* ADC and SBC on their own: a CPU with any accumulator, any operand byte  *)
(* (the immediate operand, read at the program counter), carry set or      *)
(* clear, and the other status bits each way round.                        *)
(***************************************************************************)
InitArith ==
    /\ \E oc \in BOOLEAN, a0 \in 0 .. 255, m0 \in 0 .. 255, p0 \in {\h25, \hda} :
        /\ Is([NewMachine(Roms[1], oc) EXCEPT
                 !.a = a0, !.p = p0, !.pc = \h0010,
                 !.cpu_ram = Put(Zeroes, \h0010, m0)])
        /\ probe = [stage |-> "ready", op |-> "", a |-> a0, m |-> m0, p |-> p0]
    /\ loc = "arith"
    /\ callback = "none"
    /\ timeout = FALSE
    /\ run_time = U64(0)
    /\ hist = NewHist

\* self.adc(&AddressingMode::Immediate)
AddWithCarry ==
    /\ probe.stage = "ready"
    /\ \E m \in {Adc(M, "Immediate")} : Becomes(m)
    /\ probe' = [probe EXCEPT !.stage = "done", !.op = "adc"]
    /\ UNCHANGED << loc, callback, timeout, run_time, hist >>

\* self.sbc(&AddressingMode::Immediate)
SubtractWithCarry ==
    /\ probe.stage = "ready"
    /\ \E m \in {Sbc(M, "Immediate")} : Becomes(m)
    /\ probe' = [probe EXCEPT !.stage = "done", !.op = "sbc"]
    /\ UNCHANGED << loc, callback, timeout, run_time, hist >>

SpecArith == InitArith /\ [][AddWithCarry \/ SubtractWithCarry]_vars

(***************************************************************************)
(* Address resolution on its own: get_effective_address called for the     *)
(* Indirect mode with its pointer anywhere in work RAM and its mirrors,    *)
(* and for the zero-page indexed and indirect indexed modes with any       *)
(* operand byte and any index.  The cells of work RAM a pointer byte could *)
(* come from hold a pattern that tells a cell from its neighbours and from *)
(* the first cell of its page and of the next page.                        *)
(***************************************************************************)
RamPattern(cells) ==
    [i \in {j \in cells : (j + 3 * (j \div 256)) % 256 # 0} |->
        (i + 3 * (i \div 256)) % 256]

InitAddress ==
    /\ \/ \E oc \in BOOLEAN, ptr \in \h0000 .. \h1fff :
            LET pc0 == IF ptr % \h0800 < \h0100 THEN \h0210 ELSE \h0010
                page == ptr - (ptr % 256)
                cells == {c % \h0800 : c \in {ptr, ptr + 1, page, page + 256}}
            IN  /\ Is([NewMachine(Roms[1], oc) EXCEPT
                         !.pc = pc0,
                         !.cpu_ram = Put(Put(RamPattern(cells), pc0, ptr % 256),
                                         pc0 + 1, ptr \div 256)])
                /\ probe = [stage |-> "ready", mode |-> "Indirect", ptr |-> ptr,
                            z |-> 0, index |-> 0, adr |-> 0]
       \/ \E oc \in BOOLEAN, z \in 0 .. 255, index \in 0 .. 255,
             mode \in {"ZeroPageX", "ZeroPageY", "IndirectX", "IndirectY"} :
            LET byX == mode \in {"ZeroPageX", "IndirectX"}
                cells == {z, z + 1, z + index, z + index + 1}
                         \cup {(z + 1) % 256, (z + index) % 256,
                               (z + index + 1) % 256}
            IN  /\ Is([NewMachine(Roms[1], oc) EXCEPT
                         !.pc = \h0210,
                         !.x = IF byX THEN index ELSE U8(index + 1),
                         !.y = IF byX THEN U8(index + 1) ELSE index,
                         !.cpu_ram = Put(RamPattern(cells), \h0210, z)])
                /\ probe = [stage |-> "ready", mode |-> mode, ptr |-> 0,
                            z |-> z, index |-> index, adr |-> 0]
    /\ loc = "address"
    /\ callback = "none"
    /\ timeout = FALSE
    /\ run_time = U64(0)
    /\ hist = NewHist

\* self.get_effective_address(mode, self.pc)
Resolve ==
    /\ probe.stage = "ready"
    /\ \E r \in {GetEffectiveAddress(M, probe.mode, pc)} :
        /\ Becomes(r.m)
        /\ probe' = [probe EXCEPT !.stage = "done", !.adr = r.val]
    /\ UNCHANGED << loc, callback, timeout, run_time, hist >>

SpecAddress == InitAddress /\ [][Resolve]_vars

(***************************************************************************)
(* The undocumented combining opcodes on their own: each opcode byte that  *)
(* the opcode map names LAX, SAX, DCP, ISB, SLO, RLA, SRE or RRA is        *)
(* dispatched as run_with_callback dispatches it, with bytes of every kind *)
(* at its effective address.  The operand bytes are at the program         *)
(* counter, the index registers hold 0xF3 and 0x03, and the indirect modes *)
(* find their pointer in the zero page.                                    *)
(***************************************************************************)
InitCombined ==
    /\ \E oc \in BOOLEAN, a0 \in {\h00, \h7f, \h80, \hff},
          v \in {\h00, \h01, \h02, \h03, \h0f, \h3f, \h40, \h55, \h7e, \h7f,
                 \h80, \h81, \haa, \hc0, \hfe, \hff},
          p0 \in {\h25, \hda},
          code \in {c \in 0 .. 255 :
                      OpCode(c).mnemonic \in {"*LAX", "*SAX", "*DCP", "*ISB",
                                              "*SLO", "*RLA", "*SRE", "*RRA"}} :
        LET mode == OpCode(code).mode
            zp == IF mode = "IndirectX" THEN U8(\h40 + \hf3) ELSE \h40
            target == IF mode = "ZeroPage" THEN \h0040
                      ELSE IF mode = "ZeroPageX" THEN U8(\h40 + \hf3)
                      ELSE IF mode = "ZeroPageY" THEN \h0043
                      ELSE IF mode = "Absolute" THEN \h0340
                      ELSE IF mode = "AbsoluteX" THEN \h0340 + \hf3
                      ELSE IF mode = "AbsoluteY" THEN \h0343
                      ELSE IF mode = "IndirectX" THEN \h0350
                      ELSE \h0353
            operand == Put(Put(Zeroes, \h0210, \h40), \h0211, \h03)
            pointer == IF mode \in {"IndirectX", "IndirectY"}
                       THEN Put(Put(operand, zp, \h50), zp + 1, \h03)
                       ELSE operand
            m0 == [NewMachine(Roms[1], oc) EXCEPT
                     !.a = a0, !.x = \hf3, !.y = \h03, !.p = p0, !.pc = \h0210,
                     !.cpu_ram = Put(pointer, target, v)]
        IN  /\ Is(m0)
            /\ probe = [stage |-> "ready", code |-> code, target |-> target,
                        v |-> v, m0 |-> m0]
    /\ loc = "combined"
    /\ callback = "none"
    /\ timeout = FALSE
    /\ run_time = U64(0)
    /\ hist = NewHist

\* match code { ... } of run_with_callback, for the opcode byte of the probe
Dispatch ==
    /\ probe.stage = "ready"
    /\ \E m \in {Execute(M, probe.code, OpCode(probe.code).mode)} : Becomes(m)
    /\ probe' = [probe EXCEPT !.stage = "done"]
    /\ UNCHANGED << loc, callback, timeout, run_time, hist >>

SpecCombined == InitCombined /\ [][Dispatch]_vars

(***************************************************************************)
(* Bus accesses on their own, one kind of them in each run:                *)
(*   ram     a byte is written at any address of 0x0000-0x1FFF and then an *)
(*           address of the same range is read: one of the four that share *)
(*           the written cell, or the address after it;                    *)
(*   ppu     one read or write at any address of 0x2000-0x3FFF, of a PPU   *)
(*           whose registers, OAM and VRAM hold values that tell the       *)
(*           operations apart;                                             *)
(*   prg     one read or write at any address of 0x8000-0xFFFF, of 16KB or *)
(*           32KB of program memory;                                       *)
(*   stub    one read or write at an address of the APU window, of the     *)
(*           second joypad or of 0x4018-0x7FFF;                            *)
(*   joypad  one read or write at 0x4016, beside a Joypad in any state     *)
(*           that new, write, read and set_button_pressed_status lead to;  *)
(*   dma     one write of any page number to 0x4014, at three OAM cursors; *)
(*   word    one write_address of a 16-bit value at an address inside a    *)
(*           range of the memory map or on its last byte, beside a new PPU *)
(*           or the one of the kind ppu.                                   *)
(***************************************************************************)
\* the addresses write_address is called with, and the values
WordAddresses ==
    {\h0001, \h07ff, \h1fff, \h2000, \h2001, \h2003, \h2005, \h2006, \h2007,
     \h3fff, \h4013, \h4014, \h4015, \h4016, \h7fff, \h8000, \hffff}

WordValues == {\h0000, \h0523, \h5500, \h2306, \hffff}

InitBus ==
    LET Busy(oc, control, r) ==
            [NewMachine(r, oc) EXCEPT
               !.register_control = control,
               !.register_status = \h80,
               !.register_address = [address |-> \h2005, hi_next |-> FALSE],
               !.register_scroll = [x |-> 1, y |-> 2, x_next |-> FALSE],
               !.oam_address = \h10,
               !.oam_data = Put(Zeroes, \h10, \h77),
               !.buffer = \h99,
               !.vram = Put(Zeroes, 5, \h66)]
    IN
    /\ \/ \E oc \in BOOLEAN, adr \in \h0000 .. \h1fff, data \in {\h00, \ha5} :
            LET ram == RamPattern({c % \h0800 : c \in {adr, adr + 1}})
            IN  /\ Is([NewMachine(Roms[1], oc) EXCEPT !.cpu_ram = ram])
                /\ probe = [stage |-> "write", kind |-> "ram",
                            access |-> "write", adr |-> adr, data |-> data,
                            read_adr |-> 0, val |-> 0, m0 |-> << >>]
       \/ \E oc \in BOOLEAN, adr \in \h2000 .. \h3fff, control \in {\h00, \h04},
             access \in {"read", "write"}, data \in {\h00, \h3c, \hff} :
            LET m0 == Busy(oc, control, Roms[1])
            IN  /\ access = "read" => data = \h00
                /\ Is(m0)
                /\ probe = [stage |-> access, kind |-> "ppu",
                            access |-> access, adr |-> adr, data |-> data,
                            read_adr |-> 0, val |-> 0, m0 |-> m0]
       \/ \E adr \in \h8000 .. \hffff, prg_len \in {\h4000, \h8000},
             access \in {"read", "write"} :
            LET i == adr - \h8000
                prg == RamPattern({k \in {i, (i + \h4000) % \h8000} : k < prg_len})
                m0 == [Busy(FALSE, \h00, Rom(prg, prg_len, "Horizontal", 0))
                         EXCEPT !.cpu_ram = RamPattern({adr % \h0800})]
            IN  /\ Is(m0)
                /\ probe = [stage |-> access, kind |-> "prg",
                            access |-> access, adr |-> adr, data |-> \ha5,
                            read_adr |-> 0, val |-> 0, m0 |-> m0]
       \/ \E adr \in (\h4000 .. \h4013) \cup {\h4015, \h4017}
                     \cup (\h4018 .. \h7fff),
             access \in {"read", "write"}, data \in {\h00, \hff} :
            LET m0 == [Busy(FALSE, \h00, Roms[1])
                         EXCEPT !.cpu_ram = RamPattern({adr % \h0800})]
            IN  /\ access = "read" => data = \h00
                /\ Is(m0)
                /\ probe = [stage |-> access, kind |-> "stub",
                            access |-> access, adr |-> adr, data |-> data,
                            read_adr |-> 0, val |-> 0, m0 |-> m0]
       \/ \E access \in {"read", "write"}, data \in {\h00, \h01, \hfe, \hff},
             strobe \in BOOLEAN, button_index \in 0 .. 8,
             button_flags \in {\h00, \h01, \h80, \ha5, \hff} :
            LET m0 == Busy(FALSE, \h00, Roms[1])
            IN  /\ access = "read" => data = \h00
                /\ strobe => button_index = 0
                /\ Is(m0)
                /\ probe = [stage |-> access, kind |-> "joypad",
                            access |-> access, adr |-> \h4016, data |-> data,
                            read_adr |-> 0, val |-> 0, m0 |-> m0,
                            joypad |-> [strobe |-> strobe,
                                        button_index |-> button_index,
                                        button_flags |-> button_flags]]
       \/ \E page \in \h00 .. \hff, cursor \in {\h00, \h10, \hff} :
            LET from == {page * 256 + i : i \in 0 .. 255}
                prg == RamPattern({c - \h8000 : c \in {d \in from : d >= \h8000}})
                m0 == [Busy(FALSE, \h00, Rom(prg, \h8000, "Horizontal", 0))
                         EXCEPT !.cpu_ram = RamPattern({c % \h0800 : c \in from}),
                                !.oam_address = cursor]
            IN  /\ Is(m0)
                /\ probe = [stage |-> "write", kind |-> "dma",
                            access |-> "write", adr |-> \h4014, data |-> page,
                            read_adr |-> 0, val |-> 0, m0 |-> m0]
       \/ \E oc \in BOOLEAN, adr \in WordAddresses, val \in WordValues,
             busy \in BOOLEAN :
            LET ram == Put(Put(RamPattern({\h07ff, \h0000}), 1, 1), 2, 2)
                m0 == [(IF busy THEN Busy(oc, \h00, Roms[1])
                        ELSE NewMachine(Roms[1], oc))
                         EXCEPT !.cpu_ram = ram]
            IN  /\ Is(m0)
                /\ probe = [stage |-> "write_address", kind |-> "word",
                            access |-> "write_address", adr |-> adr,
                            data |-> val, read_adr |-> 0, val |-> 0,
                            m0 |-> m0]
    /\ loc = "bus"
    /\ callback = "none"
    /\ timeout = FALSE
    /\ run_time = U64(0)
    /\ hist = NewHist

\* bus.write_address(adr, val)
BusWriteAddressAccess ==
    /\ probe.stage = "write_address"
    /\ \E m \in {WriteAddress(M, probe.adr, probe.data)} : Becomes(m)
    /\ probe' = [probe EXCEPT !.stage = "done"]
    /\ UNCHANGED << loc, callback, timeout, run_time, hist >>

\* bus.write(adr, data)
BusWriteAccess ==
    /\ probe.stage = "write"
    /\ \E m \in {BusWrite(M, probe.adr, probe.data)} : Becomes(m)
    /\ probe' = [probe EXCEPT
                   !.stage = IF probe.kind = "ram" THEN "read" ELSE "done"]
    /\ UNCHANGED << loc, callback, timeout, run_time, hist >>

\* bus.read(adr)
BusReadAccess ==
    /\ probe.stage = "read"
    /\ \E adr \in IF probe.kind = "ram"
                  THEN {(probe.adr % \h0800) + k * \h0800 : k \in 0 .. 3}
                       \cup {(probe.adr + 1) % \h2000}
                  ELSE {probe.adr} :
       \E r \in {BusRead(M, adr)} :
        /\ Becomes(r.m)
        /\ probe' = [probe EXCEPT !.stage = "done", !.read_adr = adr,
                                  !.val = r.val]
    /\ UNCHANGED << loc, callback, timeout, run_time, hist >>

SpecBus ==
    InitBus /\ [][BusWriteAccess \/ BusWriteAddressAccess \/ BusReadAccess]_vars

(***************************************************************************)
(* The PPU's registers on their own, in runs of two kinds:                 *)
(*   latch  from a new PPU, with the vertical-blank flag set or clear, up  *)
(*          to MaxPpuOps operations: reads of Status, writes of Address    *)
(*          and Scroll, reads and writes of Data;                          *)
(*   data   from any Address pointer, either step of Control and each      *)
(*          mirroring mode, up to MaxReads reads of Data, or one write of  *)
(*          Data; after the write, the two Address writes that set the     *)
(*          pointer to where it was, or to the same offset of the          *)
(*          nametable beside or below, and two reads of Data.              *)
(*   oam    from a new PPU with bytes in OAM, up to MaxPpuOps writes of    *)
(*          OAM Address and reads and writes of OAM Data.                  *)
(* Character memory and VRAM hold distinct nonzero bytes where the pointer *)
(* goes, VRAM in the other nametables as well; the palette table is all    *)
(* zero, as it is in every state of the program.  probe.log lists the operations done, each with the pointer    *)
(* it found and the byte it returned; probe.before is the machine before   *)
(* the last of them.                                                       *)
(***************************************************************************)
MaxPpuOps == 4
MaxReads == 3

InitPpu ==
    /\ \/ \E status \in {\h00, \h80} :
            /\ Is([NewMachine(Rom(Zeroes, \h8000, "Horizontal", 0), FALSE) EXCEPT
                     !.register_status = status,
                     !.vram = RamPattern({\h0305, \h0306, \h0323})])
            /\ probe = [kind |-> "latch", log |-> << >>, before |-> << >>,
                        address_writes |-> 0, scroll_writes |-> 0]
       \/ \E ptr \in \h0000 .. \h3fff, control \in {\h00, \h04},
             mirroring \in {"Horizontal", "Vertical", "FourScreen"} :
            LET r == Rom(Zeroes, \h8000, mirroring, 0)
                cells == {(ptr + n * GetAddressIncrement(control)) % \h4000 :
                            n \in 0 .. MaxReads}
                chr == RamPattern({c \in cells : c <= \h1fff})
                new == NewMachine([r EXCEPT !.chr_rom = chr], FALSE)
                nametable == IF mirroring = "FourScreen" THEN {}
                             ELSE {c \in cells : c \in \h2000 .. \h2fff}
                beside == {\h2000 + ((c - \h2000 + k * \h0400) % \h1000) :
                             c \in nametable, k \in 0 .. 3}
                cells2k == [i \in {VramMirrorAdr(new, c).val : c \in beside} |->
                           1 + (i % 255)]
            IN  /\ Is([new EXCEPT
                         !.register_control = control,
                         !.register_address = [address |-> ptr, hi_next |-> TRUE],
                         !.buffer = \h99,
                         !.vram = cells2k])
                /\ probe = [kind |-> "data", log |-> << >>, before |-> << >>,
                            address_writes |-> 0, scroll_writes |-> 0]
       \/ /\ Is([NewMachine(Rom(Zeroes, \h8000, "Horizontal", 0), FALSE) EXCEPT
                     !.oam_data = [i \in {\h00, \h01, \h10, \h11} |-> \h80 + i]])
          /\ probe = [kind |-> "oam", log |-> << >>, before |-> << >>,
                      address_writes |-> 0, scroll_writes |-> 0]
    /\ loc = "ppu"
    /\ callback = "none"
    /\ timeout = FALSE
    /\ run_time = U64(0)
    /\ hist = NewHist

\* ppu.read_status()
StatusRead ==
    /\ probe.kind = "latch" /\ Len(probe.log) < MaxPpuOps /\ fatal = ""
    /\ \E r \in {PpuReadStatus(M)} :
        /\ Becomes(r.m)
        /\ probe' = [probe EXCEPT
                       !.log = Append(@, [op |-> "read_status", data |-> 0,
                                          val |-> r.val,
                                          at |-> register_address.address]),
                       !.before = M,
                       !.address_writes = 0,
                       !.scroll_writes = 0]
    /\ UNCHANGED << loc, callback, timeout, run_time, hist >>

\* ppu.write_address(data)
AddressWrite ==
    /\ probe.kind \in {"latch", "data"} /\ fatal = ""
    /\ IF probe.kind = "latch" THEN Len(probe.log) < MaxPpuOps
       ELSE /\ Len(probe.log) \in 1 .. 2
            /\ probe.log[1].op = "write_data"
    /\ \E data \in IF probe.kind = "latch" THEN {\h05, \h23, \h63}
                   ELSE IF Len(probe.log) = 2 THEN {probe.log[1].at % 256}
                   ELSE {Xor8(probe.log[1].at \div 256, k) :
                           k \in IF probe.log[1].at \in \h2000 .. \h2fff
                                 THEN {\h00, \h04, \h08} ELSE {\h00}} :
       \E m \in {PpuWriteAddress(M, data)} :
        /\ Becomes(m)
        /\ probe' = [probe EXCEPT
                       !.log = Append(@, [op |-> "write_address", data |-> data,
                                          val |-> 0,
                                          at |-> register_address.address]),
                       !.before = M,
                       !.address_writes = @ + 1]
    /\ UNCHANGED << loc, callback, timeout, run_time, hist >>

\* ppu.write_scroll(data)
ScrollWrite ==
    /\ probe.kind = "latch" /\ Len(probe.log) < MaxPpuOps /\ fatal = ""
    /\ \E data \in {\h11, \hee} :
       \E m \in {PpuWriteScroll(M, data)} :
        /\ Becomes(m)
        /\ probe' = [probe EXCEPT
                       !.log = Append(@, [op |-> "write_scroll", data |-> data,
                                          val |-> 0,
                                          at |-> register_address.address]),
                       !.before = M,
                       !.scroll_writes = @ + 1]
    /\ UNCHANGED << loc, callback, timeout, run_time, hist >>

\* ppu.read_data()
DataRead ==
    /\ probe.kind \in {"latch", "data"} /\ fatal = ""
    /\ IF probe.kind = "latch" THEN Len(probe.log) < MaxPpuOps
       ELSE \/ /\ Len(probe.log) < MaxReads
               /\ \A i \in 1 .. Len(probe.log) : probe.log[i].op = "read_data"
            \/ /\ Len(probe.log) \in 3 .. 4
               /\ probe.log[1].op = "write_data"
    /\ \E r \in {PpuReadData(M)} :
        /\ Becomes(r.m)
        /\ probe' = [probe EXCEPT
                       !.log = Append(@, [op |-> "read_data", data |-> 0,
                                          val |-> r.val,
                                          at |-> register_address.address]),
                       !.before = M]
    /\ UNCHANGED << loc, callback, timeout, run_time, hist >>

\* ppu.write_data(data)
DataWrite ==
    /\ probe.kind \in {"latch", "data"} /\ fatal = ""
    /\ IF probe.kind = "latch" THEN Len(probe.log) < MaxPpuOps
       ELSE probe.log = << >>
    /\ \E data \in IF probe.kind = "latch" THEN {\h66} ELSE {\h00, \h66} :
       \E m \in {PpuWriteData(M, data)} :
        /\ Becomes(m)
        /\ probe' = [probe EXCEPT
                       !.log = Append(@, [op |-> "write_data", data |-> data,
                                          val |-> 0,
                                          at |-> register_address.address]),
                       !.before = M]
    /\ UNCHANGED << loc, callback, timeout, run_time, hist >>

\* ppu.write_oam_address(data)
OamAddressWrite ==
    /\ probe.kind = "oam" /\ Len(probe.log) < MaxPpuOps /\ fatal = ""
    /\ \E data \in {\h00, \h10, \hff} :
       \E m \in {PpuWriteOamAddress(M, data)} :
        /\ Becomes(m)
        /\ probe' = [probe EXCEPT
                       !.log = Append(@, [op |-> "write_oam_address",
                                          data |-> data, val |-> 0,
                                          at |-> oam_address]),
                       !.before = M]
    /\ UNCHANGED << loc, callback, timeout, run_time, hist >>

\* ppu.read_oam_data()
OamDataRead ==
    /\ probe.kind = "oam" /\ Len(probe.log) < MaxPpuOps /\ fatal = ""
    /\ \E r \in {PpuReadOamData(M)} :
        /\ Becomes(r.m)
        /\ probe' = [probe EXCEPT
                       !.log = Append(@, [op |-> "read_oam_data", data |-> 0,
                                          val |-> r.val, at |-> oam_address]),
                       !.before = M]
    /\ UNCHANGED << loc, callback, timeout, run_time, hist >>

\* ppu.write_oam_data(data)
OamDataWrite ==
    /\ probe.kind = "oam" /\ Len(probe.log) < MaxPpuOps /\ fatal = ""
    /\ \E data \in {\h00, \h66} :
       \E m \in {PpuWriteOamData(M, data)} :
        /\ Becomes(m)
        /\ probe' = [probe EXCEPT
                       !.log = Append(@, [op |-> "write_oam_data",
                                          data |-> data, val |-> 0,
                                          at |-> oam_address]),
                       !.before = M]
    /\ UNCHANGED << loc, callback, timeout, run_time, hist >>

SpecPpu ==
    InitPpu /\ [][StatusRead \/ AddressWrite \/ ScrollWrite \/ DataRead
                    \/ DataWrite \/ OamAddressWrite \/ OamDataRead
                    \/ OamDataWrite]_vars

(***************************************************************************)
(* A Joypad on its own: from Joypad::new, any sequence of write, read and  *)
(* set_button_pressed_status calls, the latter with the masks of one of    *)
(* three groups (probe.masks): the four buttons of bits 0-3, the four of   *)
(* bits 4-7, or four masks of two buttons.  probe.joypad is the Joypad and *)
(* probe.before what it was before the last call, probe.last; the rest of  *)
(* probe is the history the properties speak of:                           *)
(*   pressed  the buttons (0 = A .. 7 = Right) that the calls of           *)
(*            set_button_pressed_status have left pressed;                 *)
(*   phase    "new" until the first write with bit 0 set, "strobe" after a *)
(*            write with bit 0 set, "walk" after a write with bit 0 clear  *)
(*            that followed one;                                           *)
(*   reads    the reads since the phase began, at most MaxJoypadReads;     *)
(*   strobes  the writes with bit 0 set so far, at most MaxStrobes.        *)
(***************************************************************************)
MaxJoypadReads == 10
MaxStrobes == 2

\* the buttons a mask names
Buttons(mask) == {i \in 0 .. 7 : And8(mask, 2 ^ i) # 0}

ButtonMasks ==
    {{\h01, \h02, \h04, \h08}, {\h10, \h20, \h40, \h80},
     {\h81, \h42, \h24, \h18}}

InitJoypad ==
    /\ Is(NewMachine(Roms[1], FALSE))
    /\ \E masks \in ButtonMasks :
       probe = [masks |-> masks, joypad |-> JoypadNew, before |-> JoypadNew,
                last |-> [op |-> "new", data |-> 0, pressed |-> FALSE, val |-> 0],
                   pressed |-> {}, phase |-> "new", reads |-> 0, strobes |-> 0]
    /\ loc = "joypad"
    /\ callback = "none"
    /\ timeout = FALSE
    /\ run_time = U64(0)
    /\ hist = NewHist

\* joypad.write(data)
JoypadWriteCall ==
    /\ \E data \in {\h00, \h01, \hfe, \hff} :
        LET set == data % 2 = 1
        IN  /\ set => probe.strobes < MaxStrobes
            /\ probe' = [probe EXCEPT
                   !.joypad = JoypadWrite(@, data),
                   !.before = probe.joypad,
                   !.last = [op |-> "write", data |-> data, pressed |-> FALSE,
                             val |-> 0],
                   !.phase = IF set THEN "strobe"
                             ELSE IF @ = "strobe" THEN "walk" ELSE @,
                   !.reads = IF set \/ probe.phase = "strobe" THEN 0 ELSE @,
                   !.strobes = IF set THEN @ + 1 ELSE @]
    /\ UNCHANGED << machineVars, loc, callback, timeout, run_time, hist >>

\* joypad.read()
JoypadReadCall ==
    /\ probe.reads < MaxJoypadReads
    /\ \E r \in {JoypadRead(probe.joypad)} :
        probe' = [probe EXCEPT
                    !.joypad = r.joypad,
                    !.before = probe.joypad,
                    !.last = [op |-> "read", data |-> 0, pressed |-> FALSE,
                              val |-> r.val],
                    !.reads = @ + 1]
    /\ UNCHANGED << machineVars, loc, callback, timeout, run_time, hist >>

\* joypad.set_button_pressed_status(button, pressed)
SetButtonCall ==
    /\ \E button \in probe.masks, pressed \in BOOLEAN :
        probe' = [probe EXCEPT
                    !.joypad = SetButtonPressedStatus(@, button, pressed),
                    !.before = probe.joypad,
                    !.last = [op |-> "set", data |-> button, pressed |-> pressed,
                              val |-> 0],
                    !.pressed = IF pressed THEN @ \cup Buttons(button)
                                ELSE @ \ Buttons(button)]
    /\ UNCHANGED << machineVars, loc, callback, timeout, run_time, hist >>

SpecJoypad ==
    InitJoypad /\ [][JoypadWriteCall \/ JoypadReadCall \/ SetButtonCall]_vars

(***************************************************************************)
(* Single instructions and short runs of the loop body of                  *)
(* run_with_callback, from chosen machine states:                          *)
(*   branch  one of the eight branch opcodes at an address A of work RAM   *)
(*           or program memory, with the operand byte d and the flags all  *)
(*           clear or all set: one instruction;                            *)
(*   call    JSR at A to a target T that holds RTS, NOP RTS or PHA PLA     *)
(*           RTS, from several stack pointers: up to MaxFlowSteps          *)
(*           instructions;                                                 *)
(*   status  any opcode of the map at 0x0210, with operand bytes 0x40 0x03 *)
(*           and the byte v wherever the addressing modes and the stack    *)
(*           take it, from several status registers with bit 5 set and     *)
(*           bit 4 clear: one instruction or one NMI entry, then up to     *)
(*           MaxFlowSteps in all.                                          *)
(* probe.before is the machine before the last step, probe.last the step.  *)
(***************************************************************************)
MaxFlowSteps == 4

\* the bytes of a program put where the CPU will read them: work RAM below
\* 0x2000, program memory from 0x8000
RECURSIVE Load(_, _, _)
Load(m, adr, bytes) ==
    IF bytes = << >> THEN m
    ELSE Load(IF adr < \h2000
              THEN [m EXCEPT !.cpu_ram = Put(@, adr % \h0800, Head(bytes))]
              ELSE [m EXCEPT !.rom.prg_rom = Put(@, adr - \h8000, Head(bytes))],
              adr + 1, Tail(bytes))

BranchCodes == {\h90, \hb0, \hf0, \h30, \hd0, \h10, \h50, \h70}

InitFlow ==
    /\ \/ \E oc \in BOOLEAN, code \in BranchCodes, p0 \in {\h24, \he7},
             A \in {\h00fe, \h0200, \h07ff, \h1ffe, \h8000, \h8070, \hc000,
                    \hfffd},
             d \in {\h00, \h01, \h10, \h7f, \h80, \hfd, \hfe, \hff} :
            LET m0 == [Load(NewMachine(Rom(Zeroes, \h8000, "Horizontal", 0), oc),
                            A, << code, d >>)
                         EXCEPT !.p = p0, !.s = \hfd, !.pc = A,
                                !.a = \h11, !.x = \h22, !.y = \h33]
            IN  /\ Is(m0)
                /\ probe = [kind |-> "branch", steps |-> 0, limit |-> 1,
                            A |-> A, code |-> code, d |-> d, T |-> 0,
                            m0 |-> m0, before |-> m0,
                            last |-> [op |-> "none", at |-> 0, code |-> 0]]
       \/ \E oc \in BOOLEAN, A \in {\h0200, \h07fd, \h8000},
             T \in {\h0300, \h8010, \hffff}, s0 \in {\h00, \h01, \hfd, \hff},
             body \in {<< \h60 >>, << \hea, \h60 >>, << \h48, \h68, \h60 >>} :
            LET target == IF T = \hffff THEN A + 1 ELSE T
                called == IF target = A + 1 THEN << >> ELSE body
                m0 == [Load(Load(NewMachine(Rom(Zeroes, \h8000, "Horizontal", 0),
                                            oc),
                                 target, called),
                            A, << \h20, target % 256, target \div 256 >>)
                         EXCEPT !.p = \h24, !.s = s0, !.pc = A, !.a = \h77]
            IN  /\ Is(m0)
                /\ probe = [kind |-> "call", steps |-> 0, limit |-> MaxFlowSteps,
                            A |-> A, code |-> \h20, d |-> 0, T |-> target,
                            m0 |-> m0, before |-> m0,
                            last |-> [op |-> "none", at |-> 0, code |-> 0]]
       \/ \E oc \in BOOLEAN, code \in {c \in 0 .. 255 : IsOpCode(c)},
             p0 \in {\h24, \h65, \hef}, v \in {\h00, \h10, \h30, \hdf, \hff} :
            LET cells == {\h0040, \h0033, \h0043, \h0340, \h0433, \h0343,
                          \h0350, \h0353, \h01fd}
                ram == [c \in {k \in cells : v # 0} |-> v]
                m0 == [Load(Load(NewMachine(Roms[2], oc),
                                 \h0210, << code, \h40, \h03 >>),
                            \h01fe, << \h34, \h02 >>)
                         EXCEPT !.p = p0, !.s = \hfc, !.pc = \h0210,
                                !.a = \h80, !.x = \hf3, !.y = \h03,
                                !.cpu_ram = ram @@ @]
            IN  /\ Is(m0)
                /\ probe = [kind |-> "status", steps |-> 0,
                            limit |-> MaxFlowSteps,
                            A |-> \h0210, code |-> code, d |-> v, T |-> 0,
                            m0 |-> m0, before |-> m0,
                            last |-> [op |-> "none", at |-> 0, code |-> 0]]
    /\ loc = "flow"
    /\ callback = "none"
    /\ timeout = FALSE
    /\ run_time = U64(0)
    /\ hist = NewHist

\* one turn of the loop of run_with_callback: fetch, decrement run_time,
\* execute, tick, advance.  A panic unwinds the loop and run_time, a local of
\* it, is gone with it: it is left as the turn found it.
Instruction ==
    /\ probe.steps < probe.limit /\ fatal = "" /\ ~exited
    /\ \E events \in {<< >>, << Quit >>} :
       \E r \in {FetchExecute([M EXCEPT !.events = events])} :
        /\ Becomes(r.m)
        /\ run_time' = IF r.m.fatal # "" THEN run_time
                       ELSE U64WrappingSub(run_time, r.opcode.len)
        /\ probe' = [probe EXCEPT
                       !.steps = @ + 1, !.before = M,
                       !.last = [op |-> "instruction", at |-> r.at,
                                 code |-> r.code]]
    /\ UNCHANGED << loc, callback, timeout, hist >>

\* self.nmi()
Interrupt ==
    /\ probe.kind = "status"
    /\ probe.steps < probe.limit /\ fatal = "" /\ ~exited
    /\ \E m \in {Nmi(M)} :
        /\ Becomes(m)
        /\ probe' = [probe EXCEPT
                       !.steps = @ + 1, !.before = M,
                       !.last = [op |-> "nmi", at |-> pc, code |-> 0]]
    /\ UNCHANGED << loc, callback, timeout, run_time, hist >>

SpecFlow == InitFlow /\ [][Instruction \/ Interrupt]_vars

----------------------------------------------------------------------------
(***************************************************************************)
(* Properties.                                                             *)
(***************************************************************************)

\* C1: NMI delivery is exactly once per edge.  Every Bus tick in which the
\* vertical-blank flag goes from clear to set with NMI enabled raises one edge;
\* the first get_nmi() after it returns true and consumes it, every later one
\* returns false until the next such tick.  So at every moment the NMIs the
\* run loop has serviced, plus the edge still pending (if any), are exactly
\* the vertical-blank entries with NMI enabled so far.
C1_NmiExactlyOncePerEdge ==
    hist.nmi_serviced + (IF nmi THEN 1 ELSE 0) = hist.nmi_edges

\* C1 happens: two vertical-blank entries with NMI enabled, both serviced
C1_Witness == hist.nmi_serviced >= 2 /\ hist.nmi_edges = hist.nmi_serviced

\* C2: the render callback handed to the Bus is invoked exactly once per
\* vertical-blank entry, whatever the value of Control's NMI-enable bit: the
\* invocations so far are the ticks so far in which the vertical-blank flag
\* went from clear to set.
C2_CallbackOncePerVBlankEntry == callback_calls = hist.vblank_entries

\* C3: the PPU raises the NMI edge only if Control's NMI-enable bit is set: as
\* long as the bit has never been set, no edge is pending and the CPU has
\* serviced no NMI, however many vertical-blank entries there were.
C3_NoNmiUnlessEnabled ==
    ~hist.ever_enabled => (~nmi /\ hist.nmi_serviced = 0)

\* C3 happens: two vertical-blank entries with NMI-enable never set
C3_Witness == ~hist.ever_enabled /\ hist.vblank_entries >= 2

\* C4: in every iteration of the run loop a pending NMI is serviced first, then
\* the step observer is invoked, then the opcode is fetched.  When the loop
\* stands at the fetch the observer has been invoked exactly once more than
\* opcodes have been fetched and every NMI edge raised so far (the last of
\* them while the previous instruction executed) has been serviced; anywhere
\* else in the loop, and outside it, there is one observer call per fetch.
C4_LoopOrder ==
    /\ loc = "fetch" =>
          /\ hist.observed = hist.fetched + 1
          /\ ~nmi
          /\ hist.nmi_serviced = hist.nmi_edges
    /\ loc \in {"new", "idle", "while", "nmi", "callback"} =>
          hist.observed = hist.fetched

\* C4 happens: the loop stands at a fetch, an NMI raised by an earlier
\* instruction has been serviced in between
C4_Witness == loc = "fetch" /\ hist.nmi_serviced >= 1 /\ hist.fetched >= 3

\* C5: run with a requested budget terminates once the budget is used up: the
\* loop body is entered only while the instructions of this run have consumed
\* less than the budget.
C5_BudgetedRunStops ==
    (timeout /\ loc \in {"nmi", "callback", "fetch"}) =>
        hist.consumed < hist.max_time

\* the reset vector of a program memory: the word at 0xFFFC, four bytes before
\* the end of the image
ResetVector(r) ==
    Get(r.prg_rom, r.prg_len - 4) + 256 * Get(r.prg_rom, r.prg_len - 3)

IsPrefix(u, v) == Len(u) <= Len(v) /\ \A i \in 1 .. Len(u) : u[i] = v[i]

\* the addresses of the instructions of the straight-line program of r, in
\* order: each starts where the one before it ends
RECURSIVE InstrStartsFrom(_, _)
InstrStartsFrom(r, off) ==
    IF off >= r.straight \/ ~IsOpCode(Get(r.prg_rom, off)) THEN << >>
    ELSE << ResetVector(r) + off >>
         \o InstrStartsFrom(r, off + OpCode(Get(r.prg_rom, off)).len)

Program(r) == InstrStartsFrom(r, 0)

\* the first run after a reset, of a straight-line program, with its length
\* in bytes as the budget
StraightRun ==
    /\ hist.last_call = "run"
    /\ hist.runs_since_reset = 1
    /\ rom.straight > 0
    /\ timeout
    /\ hist.max_time = rom.straight

\* the mnemonics whose handlers write the cell of their operand (self.write
\* in cpu.rs): sta, stx, sty, sax, and asl, lsr, rol, ror, inc, dec with the
\* undocumented operations built on them
WritingMnemonics ==
    {"STA", "STX", "STY", "*SAX", "ASL", "LSR", "ROL", "ROR", "INC", "DEC",
     "*DCP", "*ISB", "*SLO", "*RLA", "*SRE", "*RRA"}

\* the mnemonics whose handlers do not read the cell of their operand: the
\* stores, jmp and jsr, which take the address alone, and nop
NonReadingMnemonics == {"STA", "STX", "STY", "*SAX", "JMP", "JSR", "*NOP"}

\* the addresses of the PPU's register window that Bus::read refuses: all
\* but Status, OAM Data and Data (bus.rs 49-53)
WriteOnlyRegister(adr) ==
    /\ adr \in \h2000 .. \h3fff
    /\ And16(adr, \h2007) \in {\h2000, \h2001, \h2003, \h2005, \h2006}

\* Of the instruction at the offset off of r's program memory, with the step
\* observer cb: has it an operand that the Bus refuses, or does it write to
\* PPU Control?  That is: a write to cartridge program memory or to the
\* read-only Status; a read of a write-only PPU register, by the instruction,
\* by the OAM DMA that a write to 0x4014 starts, or by the observer of
\* trace.rs, which reads the operand cell of every instruction; a write to
\* Control, which may set NMI-enable.  Operands in page zero are in work RAM.
\* An indexed or indirect operand is not fixed by the bytes of the program:
\* the instruction counts as meddling.
Meddles(r, off, cb) ==
    LET o == OpCode(Get(r.prg_rom, off))
        adr == Get(r.prg_rom, off + 1) + 256 * Get(r.prg_rom, off + 2)
        writes == o.mnemonic \in WritingMnemonics
        reads == o.mnemonic \notin NonReadingMnemonics
        register == And16(adr, \h2007)
    IN  CASE o.mode \in {"Immediate", "Implied", "ZeroPage", "ZeroPageX",
                         "ZeroPageY"} -> FALSE
          [] o.mode = "Absolute" ->
                \/ writes /\ adr >= \h8000
                \/ writes /\ adr \in \h2000 .. \h3fff /\ register = \h2002
                \/ writes /\ adr \in \h2000 .. \h3fff /\ register = \h2000
                \/ writes /\ adr = \h4014
                \/ (reads \/ cb = "trace") /\ WriteOnlyRegister(adr)
          [] OTHER -> TRUE

\* no instruction of the straight-line program of r meddles
Unmeddling(r, cb) ==
    \A i \in 1 .. Len(Program(r)) :
        ~Meddles(r, Program(r)[i] - ResetVector(r), cb)

C7_PpuCyclesThreeTimesCpu == hist.ppu_cycles = 3 * hist.cpu_cycles

\* C7 happens: the last of at least three instructions was a taken branch
C7_Witness ==
    /\ hist.executed >= 3
    /\ hist.last.code \in {\h90, \hb0, \hf0, \h30, \hd0, \h10, \h50, \h70}
    /\ hist.last.handler_pc # hist.last.at + 1
    /\ hist.cpu_cycles > 0

\* C8: the program counter after an instruction at address A of length L: an
\* instruction that redirects control (JMP absolute or indirect, JSR, RTS, RTI,
\* BRK) leaves it at the target its handler set, whatever the target; any other
\* instruction, the conditional branches aside, leaves it at A + L.
C8_PcAfterInstruction ==
    (loc = "while" /\ hist.last.len > 0) =>
        IF hist.last.code \in {\h4c, \h6c, \h20, \h60, \h40, \h00}
        THEN pc = hist.last.handler_pc
        ELSE IF hist.last.code \in {\h90, \hb0, \hf0, \h30, \hd0, \h10, \h50, \h70}
        THEN TRUE
        ELSE pc = U16(hist.last.at + hist.last.len)

\* C9: reset() leaves status = 0x24, stack pointer = 0xFD, A = X = Y = 0 and
\* the program counter at the little-endian word stored at 0xFFFC/0xFFFD,
\* whatever the state of the CPU before the call.
C9_ResetState ==
    (hist.last_call = "reset" /\ loc = "idle") =>
        /\ p = \h24 /\ s = \hfd
        /\ a = 0 /\ x = 0 /\ y = 0
        /\ pc = ResetVector(rom)

\* C9 happens: a reset that found other values in A, P, S and PC
C9_Witness ==
    /\ hist.last_call = "reset" /\ loc = "idle"
    /\ hist.before_reset.a # 0
    /\ hist.before_reset.p # \h24
    /\ hist.before_reset.s # \hfd
    /\ hist.before_reset.pc # pc

\* C10: stack round trip.  For every stack pointer s in 0x00..0xFF and every
\* byte b: the push of b writes address 0x0100 + s and no other, and leaves
\* the stack pointer at s - 1 (wrapping); the pop that follows returns b and
\* leaves the stack pointer at s; neither panics.
C10_StackRoundTrip ==
    /\ fatal = ""
    /\ probe.stage = "pop" =>
          /\ cpu_ram = Put(probe.ram, \h0100 + probe.s, probe.b)
          /\ s = U8(probe.s + 255)
    /\ probe.stage = "done" =>
          /\ probe.popped = probe.b
          /\ s = probe.s
          /\ cpu_ram = Put(probe.ram, \h0100 + probe.s, probe.b)

\* C10 happens: a byte other than the slot's was pushed at s = 0x00, where the
\* stack pointer wraps, and popped
C10_Witness ==
    /\ probe.stage = "done"
    /\ probe.s = 0
    /\ probe.b = \hff
    /\ probe.popped = \hff


\* a byte with one bit forced to 1 or to 0
WithBit(v, bit) == IF (v \div bit) % 2 = 1 THEN v ELSE v + bit

WithoutBit(v, bit) == IF (v \div bit) % 2 = 1 THEN v - bit ELSE v

\* the 16-bit little-endian value program memory holds at address adr
RomWord(r, adr) ==
    LET i == IF r.prg_len = \h4000 THEN adr % \h4000 ELSE adr - \h8000
    IN  Get(r.prg_rom, i) + 256 * Get(r.prg_rom, i + 1)

\* C11: interrupt entry.  BRK and NMI service push the high byte of the
\* program counter at 0x0100 + s, its low byte below it and the status byte
\* below that, the stack pointer going down by 3 modulo 256; the pushed status
\* has the unused bit set, and the break bit set for BRK and clear for NMI;
\* afterwards interrupt-disable is set and the program counter is the word at
\* 0xFFFE (BRK) or 0xFFFA (NMI).  PHP pushes the status with the unused and
\* the break bit set and changes nothing else.
C11_InterruptEntry ==
    (probe.stage = "return" /\ probe.kind \in {"brk", "nmi", "php"}) =>
        LET pushed == IF probe.kind = "nmi"
                      THEN WithBit(WithoutBit(probe.b, 16), 32)
                      ELSE WithBit(WithBit(probe.b, 16), 32)
        IN  /\ fatal = ""
            /\ probe.kind = "php" =>
                 /\ cpu_ram = Put(probe.ram, \h0100 + probe.s, pushed)
                 /\ s = U8(probe.s + 255)
                 /\ p = probe.b /\ pc = probe.pc
            /\ probe.kind \in {"brk", "nmi"} =>
                 /\ cpu_ram =
                      Put(Put(Put(probe.ram, \h0100 + probe.s, probe.pc \div 256),
                              \h0100 + U8(probe.s + 255), probe.pc % 256),
                          \h0100 + U8(probe.s + 254), pushed)
                 /\ s = U8(probe.s + 253)
                 /\ p = WithBit(probe.b, 4)
                 /\ pc = RomWord(rom, IF probe.kind = "brk" THEN \hfffe ELSE \hfffa)

\* C11 happens: an NMI was serviced with the break bit set in the status and
\* the stack pointer at 0x01, so that the pushes wrap around the stack page
C11_Witness ==
    /\ probe.stage = "return" /\ probe.kind = "nmi"
    /\ probe.s = 1 /\ probe.b = \hff
    /\ s = \hfe /\ Get(cpu_ram, \h01ff) = \hef

\* C12: interrupt return.  RTI pops the status, then the low byte of the
\* program counter, then its high byte, the stack pointer going up by 3; run
\* on the stack as NMI service (or BRK) left it, it restores the interrupted
\* program counter and the stack pointer.  PLP pops the status alone.  After
\* either the status register is the popped byte with the unused bit forced
\* to 1 and the break bit forced to 0, for every popped byte.
C12_InterruptReturn ==
    probe.stage = "done" =>
        /\ fatal = ""
        /\ p = WithBit(WithoutBit(probe.popped, 16), 32)
        /\ probe.kind \in {"rti", "plp"} => cpu_ram = probe.ram
        /\ probe.kind \in {"php", "plp"} =>
             /\ s = U8(probe.top + 1)
             /\ pc = probe.pc
        /\ probe.kind \in {"brk", "nmi", "rti"} =>
             /\ s = U8(probe.top + 3)
             /\ pc = Get(cpu_ram, \h0100 + U8(probe.top + 2))
                     + 256 * Get(cpu_ram, \h0100 + U8(probe.top + 3))
        /\ probe.kind \in {"brk", "nmi"} => (pc = probe.pc /\ s = probe.s)
        /\ probe.kind \in {"rti", "plp"} => probe.popped = probe.b

\* C12 happens: RTI alone popped a status byte with the break bit set and the
\* unused bit clear, the stack pointer wrapping from 0xFF
C12_Witness ==
    /\ probe.stage = "done" /\ probe.kind = "rti"
    /\ probe.s = \hff /\ probe.popped = \hdf
    /\ p = \hef /\ pc = \h1234 /\ s = 2

\* a byte with one bit set or cleared as a condition says
BitTo(v, bit, cond) == IF cond THEN WithBit(v, bit) ELSE WithoutBit(v, bit)

\* a byte read as a two's-complement number
Signed(v) == IF v >= 128 THEN v - 256 ELSE v

\* the status byte p0 with carry, zero, overflow and negative as given
Status(p0, c, z, v, n) == BitTo(BitTo(BitTo(BitTo(p0, 1, c), 2, z), 64, v), 128, n)

\* C13: ADC for all inputs.  For accumulator a, operand m and carry-in c the
\* accumulator becomes r = (a + m + c) mod 256, carry is a + m + c > 255,
\* overflow is signed overflow (the sum of a and m as signed bytes, plus c, is
\* outside -128..127), zero is r = 0, negative is bit 7 of r; the other status
\* bits stay.
C13_AdcAllInputs ==
    (probe.stage = "done" /\ probe.op = "adc") =>
        LET c == probe.p % 2
            sum == probe.a + probe.m + c
            r == sum % 256
            signed == Signed(probe.a) + Signed(probe.m) + c
        IN  /\ fatal = ""
            /\ a = r
            /\ p = Status(probe.p, sum > 255, r = 0,
                          signed > 127 \/ signed < -128, r >= 128)

\* C13 happens: 0x7F + 0x01 with carry clear overflows into the sign bit
C13_Witness ==
    /\ probe.stage = "done" /\ probe.op = "adc"
    /\ probe.a = \h7f /\ probe.m = \h01 /\ probe.p = \hda
    /\ a = \h80 /\ p = \hd8

\* C14: SBC is ADC of the complement.  SBC with operand m leaves the
\* accumulator and the status that ADC with operand m XOR 0xFF leaves from
\* the same state: the accumulator becomes (a - m - (1 - c)) mod 256 and
\* carry is set iff there was no borrow.
C14_SbcIsAdcOfComplement ==
    (probe.stage = "done" /\ probe.op = "sbc") =>
        LET c == probe.p % 2
            diff == probe.a - probe.m - (1 - c)
            adc == Adc([M EXCEPT !.a = probe.a, !.p = probe.p,
                                 !.cpu_ram = Put(Zeroes, \h0010, 255 - probe.m)],
                       "Immediate")
        IN  /\ fatal = ""
            /\ a = adc.a /\ p = adc.p
            /\ a = (diff + 256) % 256
            /\ (p % 2 = 1) <=> (diff >= 0)
            /\ cpu_ram = Put(Zeroes, \h0010, probe.m)

\* C14 happens: 0x00 - 0x01 with carry set borrows
C14_Witness ==
    /\ probe.stage = "done" /\ probe.op = "sbc"
    /\ probe.a = \h00 /\ probe.m = \h01 /\ probe.p = \h25
    /\ a = \hff /\ p = \ha4

\* C15: the page-boundary bug of the Indirect mode.  For a pointer ptr the
\* effective address has its low byte read from ptr and its high byte read from
\* ptr + 1 when the low byte of ptr is not 0xFF, and from the first cell of
\* the page of ptr when it is.
C15_IndirectPageBug ==
    (probe.stage = "done" /\ probe.mode = "Indirect") =>
        LET high == IF probe.ptr % 256 = 255 THEN probe.ptr - 255
                    ELSE probe.ptr + 1
        IN  /\ fatal = ""
            /\ probe.adr = Get(cpu_ram, probe.ptr % \h0800)
                           + 256 * Get(cpu_ram, high % \h0800)

\* C15 happens: the pointer 0x01FF took its high byte from 0x0100 (which holds
\* 0x03), not from 0x0200 (which holds 0x06)
C15_Witness ==
    /\ probe.stage = "done" /\ probe.mode = "Indirect"
    /\ probe.ptr = \h01ff
    /\ Get(cpu_ram, \h0100) = \h03 /\ Get(cpu_ram, \h0200) = \h06
    /\ Get(cpu_ram, \h01ff) = \h02
    /\ probe.adr = \h0302

\* C16: zero-page wrap.  ZeroPageX and ZeroPageY give (z + index) mod 256;
\* IndirectX reads its pointer from the zero-page cells (z + X) mod 256 and
\* (z + X + 1) mod 256; IndirectY reads its base pointer from z and
\* (z + 1) mod 256 and adds Y to it modulo 65536.  No pointer byte comes from
\* an address of 0x0100 or above.
C16_ZeroPageWrap ==
    (probe.stage = "done" /\ probe.mode # "Indirect") =>
        LET z == probe.z
            i == probe.index
        IN  /\ fatal = ""
            /\ probe.mode \in {"ZeroPageX", "ZeroPageY"} =>
                 probe.adr = (z + i) % 256
            /\ probe.mode = "IndirectX" =>
                 probe.adr = Get(cpu_ram, (z + i) % 256)
                             + 256 * Get(cpu_ram, (z + i + 1) % 256)
            /\ probe.mode = "IndirectY" =>
                 probe.adr = (Get(cpu_ram, z) + 256 * Get(cpu_ram, (z + 1) % 256)
                              + i) % 65536

\* C16 happens: IndirectX with z + X = 0x1FF: the pointer's low byte came from
\* 0x00FF and its high byte from 0x0000 (which holds 0x00), not from 0x0100
C16_Witness ==
    /\ probe.stage = "done" /\ probe.mode = "IndirectX"
    /\ probe.z = \hff /\ probe.index = \h00
    /\ Get(cpu_ram, \h0100) = \h03
    /\ probe.adr = \h00ff

\* C17: each undocumented combining opcode has the effect on registers, flags
\* and memory of its two documented parts executed in order with the same
\* addressing mode: DCP = DEC then CMP, ISB = INC then SBC, SLO = ASL then ORA,
\* RLA = ROL then AND, SRE = LSR then EOR, RRA = ROR then ADC.  LAX loads the
\* operand into A and X (zero and negative follow it); SAX stores A AND X and
\* changes no flag.
C17_CombinedOpcodes ==
    probe.stage = "done" =>
        LET m0 == probe.m0
            op == OpCode(probe.code).mnemonic
            mode == OpCode(probe.code).mode
        IN  /\ fatal = ""
            /\ op = "*DCP" => Is(Cmp(Dec(m0, mode), mode))
            /\ op = "*ISB" => Is(Sbc(Inc(m0, mode), mode))
            /\ op = "*SLO" => Is(Ora(Asl(m0, mode), mode))
            /\ op = "*RLA" => Is(And(Rol(m0, mode), mode))
            /\ op = "*SRE" => Is(Eor(Lsr(m0, mode), mode))
            /\ op = "*RRA" => Is(Adc(Ror(m0, mode), mode))
            /\ op = "*LAX" =>
                 Is([m0 EXCEPT !.a = probe.v, !.x = probe.v,
                               !.p = BitTo(BitTo(@, 2, probe.v = 0), 128,
                                           probe.v >= 128)])
            /\ op = "*SAX" =>
                 Is([m0 EXCEPT !.cpu_ram = Put(@, probe.target,
                                               BitAnd(m0.a, m0.x))])

\* C17 happens: RRA of the byte 0x03 with carry clear and A = 0x7F: the
\* rotation leaves 0x01 in memory and sets carry, the addition gives
\* 0x7F + 0x01 + 1
C17_Witness ==
    /\ probe.stage = "done"
    /\ OpCode(probe.code).mnemonic = "*RRA"
    /\ probe.v = \h03 /\ probe.m0.a = \h7f /\ probe.m0.p = \hda
    /\ Get(cpu_ram, probe.target) = \h01
    /\ a = \h81

\* C18: fetching an opcode byte that the opcode map lacks is fatal.  The run
\* stops at that fetch: the byte has been read and the program counter
\* stepped over it, and nothing else has happened - no handler has changed a
\* register, a flag or memory, the Bus clock stands where it stood, and the
\* fetch is not followed by a completed instruction.  Under the observer of
\* trace.rs the byte is fatal one step earlier, in the observer's own lookup
\* of it: the run stops there with the machine untouched and the byte not
\* fetched by the loop.
C18_UnmappedOpcodeFatal ==
    /\ (fatal = "OpCode is not recognized") =>
          /\ loc = "panicked"
          /\ hist.died = [M EXCEPT !.pc = U16(pc + 1)]
          /\ ~IsOpCode(Get(rom.prg_rom, pc - \h8000))
          /\ hist.fetched = hist.executed + 1
          /\ hist.fetch_log[Len(hist.fetch_log)] = pc
          /\ hist.ppu_cycles = 3 * hist.cpu_cycles
    /\ (fatal = "OpCode was not found") =>
          /\ loc = "panicked" /\ callback = "trace"
          /\ hist.died = M
          /\ ~IsOpCode(Get(rom.prg_rom, pc - \h8000))
          /\ hist.fetched = hist.executed
          /\ hist.observed = hist.fetched + 1
          /\ hist.ppu_cycles = 3 * hist.cpu_cycles
    /\ (loc = "fetch" /\ ~IsOpCode(Read(M, pc).val)) => callback = "none"

\* C18 happens: the byte 0x02 was fetched after an instruction that had
\* advanced the Bus clock
C18_Witness ==
    /\ fatal = "OpCode is not recognized"
    /\ Get(rom.prg_rom, pc - \h8000) = \h02
    /\ hist.executed >= 1
    /\ cycles > 0

\* C19: work-RAM mirroring.  After a Bus write of b at an address a of
\* 0x0000-0x1FFF the one RAM cell a mod 0x0800 holds b and every other cell
\* holds what it held; a Bus read of any address of the range with the same
\* offset mod 0x0800 returns b, and a read of the next cell returns that
\* cell's old value.
C19_WorkRamMirroring ==
    (probe.kind = "ram" /\ probe.stage \in {"read", "done"}) =>
        LET before == RamPattern({c % \h0800 : c \in {probe.adr, probe.adr + 1}})
        IN  /\ fatal = ""
            /\ cpu_ram = Put(before, probe.adr % \h0800, probe.data)
            /\ probe.stage = "done" =>
                 probe.val = IF probe.read_adr % \h0800 = probe.adr % \h0800
                             THEN probe.data
                             ELSE Get(before, probe.read_adr % \h0800)

\* C19 happens: 0xA5 written at 0x1FFF was read at 0x07FF, the lowest of the
\* four addresses of the cell
C19_Witness ==
    /\ probe.kind = "ram" /\ probe.stage = "done"
    /\ probe.adr = \h1fff /\ probe.data = \ha5
    /\ probe.read_adr = \h07ff /\ probe.val = \ha5

\* a call's result as the caller sees it: the value and the machine left
Returned(r) == RV(r.val, Settled(r.m))

\* C20: PPU register window routing.  A Bus access at an address a of
\* 0x2000-0x3FFF returns what the same access at 0x2000 + (a mod 8) returns and
\* leaves the machine as that access leaves it.  A read at offset 0, 1, 3, 5
\* or 6 and a write at offset 2 are fatal; a read at offset 2, 4 or 7 is the
\* PPU's read of Status, OAM Data or Data, and a write at another offset is
\* the PPU's write of Control, Mask, OAM Address, OAM Data, Scroll, Address
\* or Data, none of them fatal here.
C20_PpuWindowRouting ==
    (probe.kind = "ppu" /\ probe.stage = "done") =>
        LET m0 == probe.m0
            offset == probe.adr % 8
            canonical == \h2000 + offset
            d == probe.data
        IN  IF probe.access = "read"
            THEN /\ RV(probe.val, M) = Returned(BusRead(m0, canonical))
                 /\ offset \in {0, 1, 3, 5, 6} =>
                      /\ fatal # ""
                      /\ M = [m0 EXCEPT !.fatal = fatal]
                 /\ offset = 2 => RV(probe.val, M) = Returned(PpuReadStatus(m0))
                 /\ offset = 4 => RV(probe.val, M) = Returned(PpuReadOamData(m0))
                 /\ offset = 7 => RV(probe.val, M) = Returned(PpuReadData(m0))
                 /\ offset \in {2, 4, 7} => fatal = ""
            ELSE /\ M = Settled(BusWrite(m0, canonical, d))
                 /\ offset = 0 => M = Settled(PpuWriteControl(m0, d))
                 /\ offset = 1 => M = Settled(PpuWriteMask(m0, d))
                 /\ offset = 2 =>
                      /\ fatal # ""
                      /\ M = [m0 EXCEPT !.fatal = fatal]
                 /\ offset = 3 => M = Settled(PpuWriteOamAddress(m0, d))
                 /\ offset = 4 => M = Settled(PpuWriteOamData(m0, d))
                 /\ offset = 5 => M = Settled(PpuWriteScroll(m0, d))
                 /\ offset = 6 => M = Settled(PpuWriteAddress(m0, d))
                 /\ offset = 7 => M = Settled(PpuWriteData(m0, d))
                 /\ offset # 2 => fatal = ""

\* C20 happens: a read at 0x3FFA, the last mirror of Status, returned the
\* status byte and cleared its vblank bit
C20_Witness ==
    /\ probe.kind = "ppu" /\ probe.stage = "done"
    /\ probe.adr = \h3ffa /\ probe.access = "read"
    /\ probe.val = \h80
    /\ register_status = \h00
    /\ fatal = ""

\* C21: cartridge program memory.  A Bus read at an address a of 0x8000-0xFFFF
\* returns program byte a - 0x8000 of 32KB of program memory and program byte
\* a AND 0x3FFF of 16KB, is not fatal and changes nothing; a Bus write at a is
\* fatal and changes nothing else; program memory is the same afterwards.
C21_ProgramMemory ==
    (probe.kind = "prg" /\ probe.stage = "done") =>
        LET m0 == probe.m0
            offset == IF m0.rom.prg_len = \h8000 THEN probe.adr - \h8000
                      ELSE probe.adr % \h4000
        IN  /\ rom = m0.rom
            /\ IF probe.access = "read"
               THEN /\ probe.val = Get(m0.rom.prg_rom, offset)
                    /\ fatal = ""
                    /\ M = m0
               ELSE /\ fatal # ""
                    /\ M = [m0 EXCEPT !.fatal = fatal]

\* C21 happens: with 16KB of program memory the read at 0xC123 returned the
\* byte at offset 0x0123, which is not 0
C21_Witness ==
    /\ probe.kind = "prg" /\ probe.stage = "done" /\ probe.access = "read"
    /\ rom.prg_len = \h4000
    /\ probe.adr = \hc123
    /\ probe.val = Get(rom.prg_rom, \h0123)
    /\ probe.val = \h26

\* C22: joypad 1 at 0x4016.  A Bus read of 0x4016 returns the bit that
\* Joypad::read returns for the joypad's state, and after a Bus write of a
\* byte to 0x4016 the joypad is as Joypad::write of that byte leaves it.  The
\* Bus of bus.rs owns no Joypad: the joypad beside it is the one no Bus access
\* changes.
C22_JoypadThroughBus ==
    (probe.kind = "joypad" /\ probe.stage = "done") =>
        IF probe.access = "read"
        THEN probe.val = JoypadRead(probe.joypad).val
        ELSE probe.joypad = JoypadWrite(probe.joypad, probe.data)

\* C23: stub and unknown ranges.  A Bus read at an address of 0x4000-0x4013,
\* 0x4015, 0x4017 or 0x4018-0x7FFF returns 0, and neither a read nor a write
\* there is fatal or changes anything: work RAM, the PPU's registers and
\* memories, OAM and the CPU's registers are what they were.
C23_StubRangesIgnored ==
    (probe.kind = "stub" /\ probe.stage = "done") =>
        /\ fatal = ""
        /\ M = probe.m0
        /\ probe.access = "read" => probe.val = 0

\* C23 happens: 0xFF was written at 0x7FFF, above a work RAM whose cell 0x07FF
\* holds another byte, and the cell, the OAM and Status are what they were
C23_Witness ==
    /\ probe.kind = "stub" /\ probe.stage = "done" /\ probe.access = "write"
    /\ probe.adr = \h7fff /\ probe.data = \hff
    /\ Get(cpu_ram, \h07ff) = \h14
    /\ Get(oam_data, \h10) = \h77
    /\ register_status = \h80

\* C24 as stated: after a Bus write of any v to 0x4014 with the OAM cursor at
\* c, OAM[(c + i) mod 256] is the byte a Bus read of v * 256 + i returns, for
\* every i of 0 .. 255, and the cursor is c again.
C24_OamDmaAnyPage ==
    (probe.kind = "dma" /\ probe.stage = "done") =>
        LET m0 == probe.m0
            c == m0.oam_address
            Source(j) == BusRead(m0, probe.data * 256 + ((j + 256 - c) % 256))
        IN  /\ fatal = ""
            /\ \A j \in 0 .. 255 :
                 /\ Source(j).m.fatal = ""
                 /\ Get(oam_data, j) = Source(j).val
            /\ oam_address = c

\* C24, amended: so it is for every v outside 0x20-0x3F, where no read of the
\* source page changes anything, and nothing but OAM changes; for v in
\* 0x20-0x3F the first read, of the write-only register at offset 0 of the
\* PPU window, is fatal, and OAM and the cursor are what they were.
C24_OamDma ==
    (probe.kind = "dma" /\ probe.stage = "done") =>
        LET m0 == probe.m0
            c == m0.oam_address
            Source(j) == BusRead(m0, probe.data * 256 + ((j + 256 - c) % 256))
        IN  IF probe.data \in \h20 .. \h3f
            THEN /\ fatal # ""
                 /\ M = [m0 EXCEPT !.fatal = fatal]
            ELSE /\ fatal = ""
                 /\ \A j \in 0 .. 255 :
                      /\ Source(j).m = m0
                      /\ Get(oam_data, j) = Source(j).val
                 /\ oam_address = c
                 /\ M = [m0 EXCEPT !.oam_data = oam_data]

\* C24 happens: page 2 of work RAM was copied from cursor 0x10; the page's
\* first byte is at OAM 0x10 and its last byte, 0x05, at OAM 0x0F
C24_Witness ==
    /\ probe.kind = "dma" /\ probe.stage = "done"
    /\ probe.data = \h02
    /\ fatal = ""
    /\ oam_address = \h10
    /\ Get(cpu_ram, \h02ff) = \h05
    /\ Get(oam_data, \h0f) = \h05
    /\ Get(oam_data, \h10) = \h06

\* C25: a read of Status returns the status byte as it was, clears its
\* vertical-blank bit, sets both write-order latches and changes nothing else,
\* whatever number of Address and Scroll writes came before; the Address write
\* right after it replaces the high byte of the pointer, and the Scroll write
\* right after it sets X and leaves Y.
C25_StatusRead ==
    (probe.kind = "latch" /\ probe.log # << >>) =>
        LET n == Len(probe.log)
            e == probe.log[n]
            b == probe.before
        IN  /\ e.op = "read_status" =>
                 /\ e.val = b.register_status
                 /\ register_status = b.register_status % 128
                 /\ register_address.hi_next
                 /\ register_scroll.x_next
                 /\ M = [b EXCEPT !.register_status = register_status,
                                  !.register_address.hi_next = TRUE,
                                  !.register_scroll.x_next = TRUE]
            /\ (n >= 2 /\ probe.log[n - 1].op = "read_status") =>
                 /\ e.op = "write_address" =>
                      register_address.address =
                          (e.data * 256 + (b.register_address.address % 256))
                              % \h4000
                 /\ e.op = "write_scroll" =>
                      /\ register_scroll.x = e.data
                      /\ register_scroll.y = b.register_scroll.y

\* C25 happens: after one Address write and one Scroll write, with the
\* vertical-blank flag set, Status was read as 0x80 and the flag is clear; the
\* Address write after it made the pointer 0x2300 from 0x0500
C25_Witness ==
    /\ probe.kind = "latch" /\ Len(probe.log) = 4
    /\ probe.log[1].op = "write_address" /\ probe.log[1].data = \h05
    /\ probe.log[2].op = "write_scroll"
    /\ probe.log[3].op = "read_status" /\ probe.log[3].val = \h80
    /\ probe.log[4].op = "write_address" /\ probe.log[4].data = \h23
    /\ register_status = \h00
    /\ register_address.address = \h2300

\* C26: the Address write protocol.  The k-th Address write since the PPU was
\* created or Status was last read replaces the high byte of the pointer when
\* k is odd and the low byte when k is even and leaves the other byte; the
\* pointer is then masked to 14 bits, and nothing but the Address register
\* changes.  When the writes of h (k = 1) and l (k = 2) follow one another the
\* pointer is (h * 256 + l) AND 0x3FFF.
C26_AddressWriteProtocol ==
    (probe.kind = "latch" /\ probe.log # << >>) =>
        LET n == Len(probe.log)
            e == probe.log[n]
            b == probe.before
            k == probe.address_writes
            old == b.register_address.address
        IN  /\ register_address.hi_next = (k % 2 = 0)
            /\ register_address.address < \h4000
            /\ e.op = "write_address" =>
                 /\ register_address.address =
                      IF k % 2 = 1
                      THEN (e.data * 256 + (old % 256)) % \h4000
                      ELSE ((old \div 256) * 256 + e.data) % \h4000
                 /\ M = [b EXCEPT !.register_address = register_address]
                 /\ (k = 2 /\ probe.log[n - 1].op = "write_address") =>
                      register_address.address =
                          (probe.log[n - 1].data * 256 + e.data) % \h4000

\* C26 happens: 0x63 then 0x05 were written and the pointer is 0x2305
C26_Witness ==
    /\ probe.kind = "latch" /\ Len(probe.log) = 2
    /\ probe.log[1].op = "write_address" /\ probe.log[1].data = \h63
    /\ probe.log[2].op = "write_address" /\ probe.log[2].data = \h05
    /\ probe.address_writes = 2
    /\ register_address.address = \h2305

\* C27: the Scroll write protocol.  The k-th Scroll write since the PPU was
\* created or Status was last read sets X when k is odd and Y when k is even,
\* leaves the other coordinate and changes nothing outside the Scroll
\* register; the Address writes and Data accesses between two Scroll writes
\* do not change which coordinate the next one sets.
C27_ScrollWriteProtocol ==
    (probe.kind = "latch" /\ probe.log # << >>) =>
        LET n == Len(probe.log)
            e == probe.log[n]
            b == probe.before
            k == probe.scroll_writes
        IN  /\ register_scroll.x_next = (k % 2 = 0)
            /\ e.op = "write_scroll" =>
                 /\ register_scroll.x =
                      IF k % 2 = 1 THEN e.data ELSE b.register_scroll.x
                 /\ register_scroll.y =
                      IF k % 2 = 0 THEN e.data ELSE b.register_scroll.y
                 /\ M = [b EXCEPT !.register_scroll = register_scroll]
            /\ e.op \in {"write_address", "read_data", "write_data"} =>
                 register_scroll = b.register_scroll

\* C27 happens: Scroll was written with 0x11, then Address was written and
\* Data was read, then Scroll was written with 0xEE: X is 0x11 and Y is 0xEE
C27_Witness ==
    /\ probe.kind = "latch" /\ Len(probe.log) = 4
    /\ probe.log[1].op = "write_scroll" /\ probe.log[1].data = \h11
    /\ probe.log[2].op = "write_address"
    /\ probe.log[3].op = "read_data"
    /\ probe.log[4].op = "write_scroll" /\ probe.log[4].data = \hee
    /\ register_scroll.x = \h11
    /\ register_scroll.y = \hee
    /\ fatal = ""

\* the byte stored at the pointer q of 0x0000-0x2FFF: of character memory
\* below 0x2000, of the VRAM cell of the nametable address otherwise
StoredAt(m, q) ==
    IF q <= \h1fff THEN Get(m.rom.chr_rom, q)
    ELSE Get(m.vram, VramMirrorAdr(m, q).val)

\* the runs of Data reads alone, from a pointer of 0x0000-0x2FFF.  FourScreen
\* mirroring, with which every nametable access is fatal by the
\* specification's own rules, is left aside.
DelayedReads ==
    /\ probe.kind = "data" /\ probe.log # << >>
    /\ \A i \in 1 .. Len(probe.log) : probe.log[i].op = "read_data"
    /\ probe.log[1].at <= \h2fff
    /\ rom.screen_mirroring \in {"Horizontal", "Vertical"}

\* C28: Data reads below the palette range are delayed by one access.  After
\* the pointer is set to any p of 0x0000-0x2FFF, the first Data read returns
\* the buffer's old content, and with step s the (n + 2)-th returns the byte
\* stored at p + n * s; none of them is fatal.
C28_DelayedReadsFromAnyPointer ==
    DelayedReads =>
        LET n == Len(probe.log)
            e == probe.log[n]
            s0 == GetAddressIncrement(register_control)
        IN  /\ fatal = ""
            /\ e.val = IF n = 1 THEN \h99
                       ELSE StoredAt(probe.before, probe.log[1].at + (n - 2) * s0)

\* C29: palette reads are immediate.  A Data read that finds the pointer at
\* any q of 0x3F00-0x3FFF is not fatal and returns the palette-table byte of
\* q, the table's 32 bytes repeating through the range, whatever the buffer
\* holds.
C29_PaletteReadsImmediate ==
    (/\ probe.kind = "data" /\ probe.log # << >>
     /\ probe.log[Len(probe.log)].op = "read_data"
     /\ probe.log[Len(probe.log)].at \in \h3f00 .. \h3fff) =>
        LET e == probe.log[Len(probe.log)]
        IN  /\ fatal = ""
            /\ e.val = Get(probe.before.palette_table, (e.at - \h3f00) % 32)

\* C30: every Data access that is not fatal, read or write, leaves the
\* pointer at the pointer it found plus Control's step, 1 with bit 2 clear and
\* 32 with it set, modulo 0x4000; the pointer is below 0x4000 in every state.
C30_DataAccessAdvances ==
    /\ register_address.address < \h4000
    /\ (/\ probe.log # << >>
        /\ probe.log[Len(probe.log)].op \in {"read_data", "write_data"}
        /\ fatal = "") =>
           register_address.address =
               (probe.log[Len(probe.log)].at
                  + (IF And8(register_control, 4) = 0 THEN 1 ELSE 32)) % \h4000

\* the runs in which a byte was written through Data at the pointer p and the
\* Address writes that followed, if any, were meant to set the pointer to q
StoreRun ==
    /\ probe.kind = "data" /\ probe.log # << >>
    /\ probe.log[1].op = "write_data"

\* the pointer the two Address writes after the Data write set
SetBackTo == probe.log[2].data * 256 + probe.log[3].data

\* C31: a Data write stores the byte at the pointer.  With Horizontal or
\* Vertical mirroring, a Data write of b at any pointer p of 0x2000-0x2FFF or
\* of 0x3F00-0x3FFF is not fatal, and after setting the pointer back to p no
\* Data read is fatal and the second read (nametables) or the first (palette)
\* returns b.
C31_DataWriteStores ==
    (/\ StoreRun
     /\ probe.log[1].at \in (\h2000 .. \h2fff) \cup (\h3f00 .. \h3fff)
     /\ rom.screen_mirroring \in {"Horizontal", "Vertical"}
     /\ Len(probe.log) >= 3 => SetBackTo = probe.log[1].at) =>
        LET n == Len(probe.log)
            w == probe.log[1]
        IN  /\ fatal = ""
            /\ (n = 5 /\ w.at <= \h2fff) => probe.log[5].val = w.data
            /\ (n = 4 /\ w.at >= \h3f00) => probe.log[4].val = w.data

\* the VRAM byte the nametable address q stands for: nametables 0 and 1 share
\* the first kilobyte and 2 and 3 the second under Horizontal mirroring,
\* nametables 0 and 2 the first and 1 and 3 the second under Vertical
NametableByte(mirroring, q) ==
    LET k == (q - \h2000) \div \h0400
        half == IF mirroring = "Horizontal" THEN k \div 2 ELSE k % 2
    IN  half * \h0400 + (q % \h0400)

\* C32: nametable mirroring.  With Horizontal mirroring a byte written through
\* Data at any p of 0x2000-0x2FFF is the byte a Data read at p and at
\* p XOR 0x0400 loads, and a read at p XOR 0x0800 loads the byte that was
\* there before; with Vertical mirroring the read at p XOR 0x0800 loads the
\* written byte and the read at p XOR 0x0400 the one that was there.  The
\* write changes one VRAM byte, of an index below 2048, and nothing else.
\* With FourScreen every Data access in 0x2000-0x2FFF is fatal.
C32_NametableMirroring ==
    /\ \A i \in DOMAIN vram : i < 2048
    /\ (/\ probe.log # << >>
        /\ probe.log[Len(probe.log)].op \in {"read_data", "write_data"}
        /\ probe.log[Len(probe.log)].at \in \h2000 .. \h2fff
        /\ rom.screen_mirroring = "FourScreen") => fatal # ""
    /\ (/\ StoreRun
        /\ probe.log[1].at \in \h2000 .. \h2fff
        /\ rom.screen_mirroring \in {"Horizontal", "Vertical"}) =>
           LET n == Len(probe.log)
               w == probe.log[1]
               mir == rom.screen_mirroring
               same == IF mir = "Horizontal"
                       THEN {w.at, Xor8(w.at \div 256, \h04) * 256 + (w.at % 256)}
                       ELSE {w.at, Xor8(w.at \div 256, \h08) * 256 + (w.at % 256)}
           IN  /\ n <= 4 => fatal = ""
               /\ n = 1 =>
                    /\ NametableByte(mir, w.at) < 2048
                    /\ M = [probe.before EXCEPT
                              !.vram = Put(@, NametableByte(mir, w.at), w.data)]
               /\ n >= 3 =>
                    /\ SetBackTo \in \h2000 .. \h2fff
                    /\ (NametableByte(mir, SetBackTo) = NametableByte(mir, w.at))
                           = (SetBackTo \in same)
               /\ n = 4 =>
                    buffer = IF SetBackTo \in same THEN w.data
                             ELSE 1 + (NametableByte(mir, SetBackTo) % 255)
               /\ (n = 5 /\ fatal = "") =>
                    probe.log[5].val =
                        IF SetBackTo \in same THEN w.data
                        ELSE 1 + (NametableByte(mir, SetBackTo) % 255)

\* C32 happens: with Horizontal mirroring 0x66 was written at 0x2405 and the
\* second Data read from 0x2005 returned it, VRAM byte 5 holding it
C32_Witness ==
    /\ StoreRun /\ Len(probe.log) = 5
    /\ rom.screen_mirroring = "Horizontal"
    /\ probe.log[1].at = \h2405 /\ probe.log[1].data = \h66
    /\ SetBackTo = \h2005
    /\ probe.log[5].val = \h66
    /\ Get(vram, 5) = \h66
    /\ fatal = ""

\* C33: OAM access.  A write of OAM Address makes the written byte the
\* cursor; a write of OAM Data with the cursor at c stores the byte in OAM[c]
\* and leaves the cursor at (c + 1) mod 256; a read of OAM Data returns
\* OAM[c] and changes neither the cursor nor OAM.  None of them changes
\* anything else.
C33_OamAccess ==
    (probe.kind = "oam" /\ probe.log # << >>) =>
        LET e == probe.log[Len(probe.log)]
            b == probe.before
            c == b.oam_address
        IN  /\ fatal = ""
            /\ e.at = c
            /\ oam_address \in 0 .. 255
            /\ e.op = "write_oam_address" =>
                 /\ oam_address = e.data
                 /\ M = [b EXCEPT !.oam_address = e.data]
            /\ e.op = "write_oam_data" =>
                 /\ Get(oam_data, c) = e.data
                 /\ \A i \in (0 .. 255) \ {c} : Get(oam_data, i) = Get(b.oam_data, i)
                 /\ oam_address = (c + 1) % 256
                 /\ M = [b EXCEPT !.oam_data = oam_data,
                                  !.oam_address = oam_address]
            /\ e.op = "read_oam_data" =>
                 /\ e.val = Get(b.oam_data, c)
                 /\ M = b

\* C33 happens: the cursor was set to 0xFF, 0x66 was written there, which
\* took the cursor to 0, and the read that followed returned OAM[0] and left
\* the cursor at 0
C33_Witness ==
    /\ probe.kind = "oam" /\ Len(probe.log) = 3
    /\ probe.log[1].op = "write_oam_address" /\ probe.log[1].data = \hff
    /\ probe.log[2].op = "write_oam_data" /\ probe.log[2].data = \h66
    /\ probe.log[3].op = "read_oam_data"
    /\ probe.log[3].val = \h80 /\ Get(oam_data, 0) = \h80
    /\ Get(oam_data, \hff) = \h66
    /\ oam_address = 0

\* C34: the Joypad with strobe set.  From a write with bit 0 set until a
\* write with bit 0 clear, strobe is set and the cursor is 0, and every read,
\* however many came before it, returns 1 if button A is pressed at that
\* moment and 0 if it is not, and changes nothing.
C34_StrobeSetReportsA ==
    (loc = "joypad" /\ probe.phase = "strobe") =>
        /\ probe.joypad.strobe
        /\ probe.joypad.button_index = 0
        /\ probe.last.op = "read" =>
             /\ probe.last.val = IF 0 \in probe.pressed THEN 1 ELSE 0
             /\ probe.joypad = probe.before

\* C34 happens: with strobe set, A was pressed after some reads and the
\* tenth read returned 1, the cursor still at 0
C34_Witness ==
    /\ loc = "joypad" /\ probe.phase = "strobe"
    /\ probe.reads = MaxJoypadReads
    /\ probe.last.op = "read" /\ probe.last.val = 1
    /\ probe.pressed = {0, 2, 5, 7}
    /\ probe.joypad.button_index = 0

\* C35: the Joypad with strobe clear.  After a write with bit 0 set and then
\* one with bit 0 clear, the k-th read returns, for k = 1 .. 8, 1 if button
\* k - 1 (A, B, Select, Start, Up, Down, Left, Right) is pressed at that
\* moment and 0 if not, and every read after the eighth returns 1, until a
\* write with bit 0 set; the reads after the next such pair of writes take
\* the buttons from A again.
C35_StrobeClearWalksButtons ==
    (loc = "joypad" /\ probe.phase = "walk") =>
        /\ ~probe.joypad.strobe
        /\ probe.joypad.button_index = IF probe.reads <= 8 THEN probe.reads ELSE 8
        /\ probe.last.op = "read" =>
             probe.last.val = IF probe.reads > 8 THEN 1
                              ELSE IF (probe.reads - 1) \in probe.pressed THEN 1
                              ELSE 0

\* C35 happens: after the second pair of writes, with B, Select, Down and
\* Left pressed, the fourth read (Start) returned 0; and the tenth returned 1
C35_Witness ==
    /\ loc = "joypad" /\ probe.phase = "walk" /\ probe.strobes = 2
    /\ probe.pressed = {1, 2, 5, 6}
    /\ probe.last.op = "read"
    /\ \/ probe.reads = 4 /\ probe.last.val = 0 /\ probe.joypad.button_index = 4
       \/ probe.reads = 10 /\ probe.last.val = 1 /\ probe.joypad.button_index = 8

\* C39: the Joypad's cursor.  In every state the cursor is between 0 and 8,
\* and it is 0 while strobe is set.  A call of set_button_pressed_status sets
\* (pressed) or clears (released) the button bits of its mask and leaves the
\* other buttons, the cursor and strobe as they were; a write with bit 0
\* clear leaves the cursor and the buttons as they were.
C39_JoypadCursor ==
    loc = "joypad" =>
        LET j == probe.joypad
            b == probe.before
            e == probe.last
        IN  /\ j.button_index \in 0 .. 8
            /\ j.strobe => j.button_index = 0
            /\ j.button_flags \in 0 .. 255
            /\ Buttons(j.button_flags) = probe.pressed
            /\ e.op = "set" =>
                 /\ j.button_index = b.button_index
                 /\ j.strobe = b.strobe
                 /\ Buttons(j.button_flags) =
                        IF e.pressed
                        THEN Buttons(b.button_flags) \cup Buttons(e.data)
                        ELSE Buttons(b.button_flags) \ Buttons(e.data)
            /\ (e.op = "write" /\ e.data % 2 = 0) =>
                 /\ j.button_index = b.button_index
                 /\ j.button_flags = b.button_flags
                 /\ ~j.strobe

\* C39 happens: in the middle of a report, the cursor at 3, Select and Down
\* were pressed together and the cursor is still 3
C39_Witness ==
    /\ loc = "joypad" /\ probe.phase = "walk" /\ probe.reads = 3
    /\ probe.last = [op |-> "set", data |-> \h24, pressed |-> TRUE, val |-> 0]
    /\ probe.before.button_flags = \h81
    /\ probe.joypad = [strobe |-> FALSE, button_index |-> 3,
                       button_flags |-> \ha5]

\* what OAM DMA is said to leave alone: work RAM, VRAM, the palette, Status,
\* the Address pointer and both write-order latches, the read-ahead buffer,
\* the PPU's clock and NMI edge, and the count of render callbacks
OutsideOam(m) ==
    << m.cpu_ram, m.vram, m.palette_table, m.register_status,
       m.register_address, m.register_scroll, m.buffer, m.cycles, m.scanline,
       m.nmi, m.callback_calls, m.register_control, m.register_mask,
       m.a, m.x, m.y, m.p, m.s, m.pc >>

\* C40 as stated: a Bus write of any v to 0x4014 is not fatal and changes
\* nothing but OAM.
C40_OamDmaAnyPageAtomic ==
    (probe.kind = "dma" /\ probe.stage = "done") =>
        /\ fatal = ""
        /\ OutsideOam(M) = OutsideOam(probe.m0)
        /\ oam_address = probe.m0.oam_address

\* C40, amended: a Bus write of v to 0x4014 is one step in which, for every
\* v outside 0x20-0x3F, nothing but the 256 OAM bytes changes: work RAM,
\* VRAM, the palette, Status, the Address pointer, both latches, the buffer,
\* the PPU clock, the NMI edge and the count of render callbacks are what
\* they were, and so is the OAM cursor.  For v in 0x20-0x3F the write is
\* fatal, and leaves all of that and OAM as they were.
C40_OamDmaAtomic ==
    (probe.kind = "dma" /\ probe.stage = "done") =>
        /\ OutsideOam(M) = OutsideOam(probe.m0)
        /\ oam_address = probe.m0.oam_address
        /\ IF probe.data \in \h20 .. \h3f
           THEN fatal # "" /\ oam_data = probe.m0.oam_data
           ELSE fatal = "" /\ \A j \in 0 .. 255 :
                                Get(oam_data, j) =
                                    BusRead(probe.m0, probe.data * 256
                                              + ((j + 256 - oam_address) % 256)).val

\* C40 happens: page 0x80 of program memory was copied with the cursor at
\* 0xFF; OAM changed, and the vertical-blank flag, the pointer, the latches,
\* the buffer and the clock are what they were
C40_Witness ==
    /\ probe.kind = "dma" /\ probe.stage = "done"
    /\ probe.data = \h80 /\ oam_address = \hff
    /\ fatal = ""
    /\ oam_data # probe.m0.oam_data
    /\ Get(oam_data, \hff) = Get(rom.prg_rom, 0)
    /\ register_status = \h80
    /\ register_address = [address |-> \h2005, hi_next |-> FALSE]
    /\ register_scroll.x_next = FALSE
    /\ buffer = \h99
    /\ cycles = 0 /\ scanline = 0 /\ callback_calls = 0

\* C36: the status register.  In every state that instructions and NMI
\* entries lead to from a status register with bit 5 set and bit 4 clear, as
\* reset() leaves it, the status register has bit 5 set and bit 4 clear; the
\* status byte that BRK and PHP leave on the stack has both bits set, and the
\* one an NMI entry leaves there has bit 5 set and bit 4 clear.
C36_StatusRegisterBits ==
    loc = "flow" =>
        LET pushed == Get(cpu_ram, \h0100 + U8(s + 1))
        IN  /\ And8(p, \h30) = \h20
            /\ (fatal = "" /\ probe.last.op = "instruction"
                  /\ probe.last.code \in {\h00, \h08}) =>
                 /\ And8(pushed, \h30) = \h30
                 /\ And8(pushed, \hcf) = And8(probe.before.p, \hcf)
            /\ (fatal = "" /\ probe.last.op = "nmi") =>
                 /\ And8(pushed, \h30) = \h20
                 /\ And8(pushed, \hcf) = And8(probe.before.p, \hcf)

\* C36 happens: PLP popped 0xDF, a byte with bit 4 set and bit 5 clear, and
\* the status register is 0xEF; before it was 0x24
C36_Witness ==
    /\ loc = "flow" /\ probe.kind = "status" /\ probe.steps = 1
    /\ probe.last.op = "instruction" /\ probe.last.code = \h28
    /\ probe.d = \hdf /\ probe.m0.p = \h24
    /\ p = \hef
    /\ fatal = ""

\* whether the branch opcode code is taken with the status register p0
Taken(code, p0) ==
    LET flag == IF code \in {\h90, \hb0} THEN FLG_C
                ELSE IF code \in {\hf0, \hd0} THEN FLG_Z
                ELSE IF code \in {\h30, \h10} THEN FLG_N
                ELSE FLG_V
    IN  (And8(p0, flag) # 0) = (code \in {\hb0, \hf0, \h30, \h70})

\* C37: the target of a conditional branch.  After a branch opcode at A with
\* the operand byte d, read as a signed value, the program counter is
\* (A + 2 + d) mod 65536 if the branch condition holds and A + 2 if it does
\* not, for every A and d; the instruction is never fatal and changes no
\* register, no flag and no memory.
C37_BranchTarget ==
    (loc = "flow" /\ probe.kind = "branch" /\ probe.steps = 1) =>
        LET m0 == probe.m0
        IN  /\ fatal = ""
            /\ pc = IF Taken(probe.code, m0.p)
                    THEN (probe.A + 2 + I8(probe.d) + 65536) % 65536
                    ELSE probe.A + 2
            /\ << a, x, y, p, s >> = << m0.a, m0.x, m0.y, m0.p, m0.s >>
            /\ << cpu_ram, vram, oam_data, palette_table >>
                   = << m0.cpu_ram, m0.vram, m0.oam_data, m0.palette_table >>

\* C38: the subroutine round trip.  JSR at A leaves A + 2 on the stack, high
\* byte first, and the operand in the program counter; RTS continues at the
\* address it pops, low byte first, plus 1.  So the RTS that finds the stack
\* pointer where the JSR left it continues at A + 3 with the stack pointer
\* that the JSR found.
C38_SubroutineRoundTrip ==
    (loc = "flow" /\ probe.kind = "call" /\ probe.steps >= 1) =>
        LET m0 == probe.m0
            b == probe.before
            ret == probe.A + 2
        IN  /\ probe.steps = 1 =>
                 /\ fatal = ""
                 /\ pc = probe.T
                 /\ s = U8(m0.s + 254)
                 /\ Get(cpu_ram, \h0100 + m0.s) = ret \div 256
                 /\ Get(cpu_ram, \h0100 + U8(m0.s + 255)) = ret % 256
            /\ (probe.last.code = \h60 /\ b.s = U8(m0.s + 254)) =>
                 /\ fatal = ""
                 /\ pc = probe.A + 3
                 /\ s = m0.s

=============================================================================
